---- MODULE Spec2Model ----
(***************************************************************************)
(* pgfs: a flat, write-once file store over the large-object API of        *)
(* Postgres.  The model holds the database as seen through transactions    *)
(* (the metadata table, the large objects, each session's table of open    *)
(* large-object descriptors), the Go handles the package hands out         *)
(* (writer, file, dir), and the result of the most recent call.            *)
(*                                                                         *)
(* Bytes are drawn from {0, 97}: 0x00 is a byte http.DetectContentType     *)
(* classifies as binary, 97 ('a') is a text byte.  SHA-256 is replaced by  *)
(* a small rolling digest that is fed incrementally, as hash.Hash is.      *)
(***************************************************************************)
EXTENDS Integers, Sequences, FiniteSets, TLC

VARIABLES db, writers, files, dirs, last

vars == <<db, writers, files, dirs, last>>

(* ------------------------------ bounds -------------------------------- *)

\* Write Handles created in one run.
MaxWriters == 2

\* Read Handles opened in one run.
MaxFiles == 2

\* Bytes of the file the store holds when Read Handles are exercised.
MaxSize == 3

\* The furthest position a Read Handle is moved or read to.
MaxPos == 3

\* Bytes accepted through one Write Handle.
MaxLen == 2

\* Write calls one Write Handle has bytes accepted of.
MaxCalls == 2

\* Directory handles opened in one run.
MaxDirs == 1

\* The most rows a store that fails delivers of a listing before it does.
MaxRows == 2

(* --------------------------- program constants ------------------------ *)

invRead == 131072

invWrite == 262144

fileTagSize == 512

BinaryType == "application/octet-stream"

TextType == "text/plain; charset=utf-8"

\* The UUID of the root directory: all bits zero.
rootUUID == 0

\* fs.FileMode values, written as FileMode.String writes them: fs.ModeDir,
\* the directory bit alone, and 0, a regular file.
ModeDir == "d---------"

ModeFile == "----------"

\* The zero value of time.Time.
zeroTime == 0

(* ------------------------------ inputs -------------------------------- *)

\* The transactions an FS can be bound to (FS.conn).
Txs == {1, 2}

\* Names callers pass: the empty string, a string that is no UUID, two UUIDs,
\* and the upper-case spelling of the first one.
Names == {"", "bad name", "u1", "U1", "u2"}

\* The names of files: every name but the root's.
FileNames == Names \ {""}

\* The counts passed to Readdir.
Counts == {1, 2}

Bytes == {0, 97}

\* The byte slices passed to Write.
Chunks == {<<97>>, <<0>>}

ContentTypes == {"", "application/pdf"}

\* n bytes of value v.
Fill(v, n) == [i \in 1..n |-> v]

\* Arguments of Write that reach past the first 512 bytes of a file.
BigChunks == {<<0>>, Fill(97, 300), Fill(97, 600)}

(* ------------------------------ errors -------------------------------- *)

Nil == "nil"

ErrNotExist == "fs.ErrNotExist"

ErrExist == "fs.ErrExist"

ErrClosed == "fs.ErrClosed"

ErrShortWrite == "io.ErrShortWrite"

EOF == "io.EOF"

PathError == "*fs.PathError"

ErrInvalid == "fs.ErrInvalid"

\* Errors raised by the database and passed through unchanged.
ErrUniqueViolation == "pq: unique_violation"

ErrBadDescriptor == "pq: invalid large-object descriptor"

ErrNotWritable == "pq: descriptor was not opened for writing"

ErrNoObject == "pq: large object does not exist"

ErrTxAborted == "pq: current transaction is aborted"

ErrSeekTarget == "pq: invalid large object seek target"

ErrWhence == "pq: invalid whence setting"

ErrTxDone == "sql.ErrTxDone"

ErrUndefinedTable == "pq: relation pgfs_metadata does not exist"

ErrLibrary == "errors.New"

\* A run-time panic: the call does not return.
Panic == "panic: slice bounds out of range"

StoreErrors == {ErrUniqueViolation, ErrBadDescriptor, ErrNotWritable, ErrNoObject,
                ErrTxAborted, ErrSeekTarget, ErrWhence, ErrTxDone, ErrLibrary,
                ErrUndefinedTable}

\* io.SeekStart, io.SeekCurrent, io.SeekEnd
SeekStart == 0

SeekCurrent == 1

SeekEnd == 2

Whences == {SeekStart, SeekCurrent, SeekEnd}

\* Offsets given to Seek.
Offsets == {-1, 0, 2}

\* Lengths of the buffers given to Read.
BufLens == {1, 4}

(* ------------------------------ helpers ------------------------------- *)

Min(a, b) == IF a < b THEN a ELSE b

Max(a, b) == IF a > b THEN a ELSE b

NoFds == [k \in {} |-> 0]

Drop(f, k) == [x \in (DOMAIN f) \ {k} |-> f[x]]

\* The name of the virtual root directory: the all-zero UUID.
root == "00000000-0000-0000-0000-000000000000"

\* uuid.Parse: accepts several spellings of one UUID, rejects the rest.
uuidParse(name) ==
    CASE name = "u1" -> [ok |-> TRUE, id |-> 1]
      [] name = root -> [ok |-> TRUE, id |-> 0]
      [] name = "U1" -> [ok |-> TRUE, id |-> 1]
      [] name = "u2" -> [ok |-> TRUE, id |-> 2]
      [] OTHER -> [ok |-> FALSE, id |-> 0]

\* uuid.UUID.String: the canonical lower-case spelling.
uuidString(id) == IF id = 1 THEN "u1" ELSE IF id = 2 THEN "u2" ELSE root

\* sha256.New / hash.Hash.Write / hash.Hash.Sum.  The digest takes the bytes
\* one after the other: a byte v turns the state h into (h * 3 + v + 1) % 251.
shaNew == 1

\* What a run of bytes does to the state: <<m, a>>, turning h into
\* (m * h + a) % 251.  A long run is two shorter ones, one after the other.
RECURSIVE shaBlock(_)
shaBlock(b) ==
    IF Len(b) = 0 THEN <<1, 0>>
    ELSE IF Len(b) = 1 THEN <<3, b[1] + 1>>
    ELSE LET k == Len(b) \div 2
             l == shaBlock(SubSeq(b, 1, k))
             r == shaBlock(SubSeq(b, k + 1, Len(b)))
         IN  <<(l[1] * r[1]) % 251, (r[1] * l[2] + r[2]) % 251>>

shaWrite(h, b) == LET e == shaBlock(b) IN (e[1] * h + e[2]) % 251

sha256(b) == shaWrite(shaNew, b)

\* http.DetectContentType over the bytes of the model.
DetectContentType(tag) ==
    IF \E i \in 1..Min(Len(tag), fileTagSize) : tag[i] = 0 THEN BinaryType ELSE TextType

\* NOW(): the time at which transaction t began.  The file of Init was
\* stored at time 10, before either began.
now(t) == 10 + t

\* A Sys value: a Go map from strings to strings, or the nil map.
NilSys == [nil |-> TRUE, m |-> <<>>]

MakeSys(m) == [nil |-> FALSE, m |-> m]

\* The keys of the attribute maps, in the order encoding/json writes them.
SysKeys == <<"a", "b">>

\* The attribute maps given to Create.
SysMaps == {NilSys, MakeSys(<<>>), MakeSys("a" :> "1"), MakeSys("b" :> "1"),
            MakeSys(("a" :> "1") @@ ("b" :> "2"))}

\* The SQL NULL of a JSONB column, and a JSON object as the members it is
\* written with.
Null == [null |-> TRUE, members |-> <<>>]

\* json.Marshal that writes the first member only.
jsonMarshalFirst(m) ==
    LET keys == SelectSeq(SysKeys, LAMBDA k : k \in DOMAIN m)
    IN  [i \in 1..Min(1, Len(keys)) |-> <<keys[i], m[keys[i]]>>]

\* json.Marshal of a map: one member per key, the keys in order.
jsonMarshal(m) ==
    LET keys == SelectSeq(SysKeys, LAMBDA k : k \in DOMAIN m)
    IN  [i \in 1..Len(keys) |-> <<keys[i], m[keys[i]]>>]

\* json.Unmarshal into a map: every member is set, a later one over an
\* earlier one of the same key.
jsonUnmarshal(members) ==
    [k \in {members[i][1] : i \in 1..Len(members)} |->
        LET i == CHOOSE x \in 1..Len(members) :
                     /\ members[x][1] = k
                     /\ \A y \in 1..Len(members) : members[y][1] = k => y <= x
        IN  members[i][2]]

\* Sys.Value: what is stored in the sys column.
SysValue(sys) ==
    IF sys.nil THEN Null ELSE [null |-> FALSE, members |-> jsonMarshal(sys.m)]

\* Sys.Scan into the zero Sys of a new entry: what is read from the sys column.
SysScan(data) ==
    IF data.null THEN NilSys ELSE MakeSys(jsonUnmarshal(data.members))

(* ----------------------------- the database --------------------------- *)
(* A row or large object carries xmin, the transaction that created it (0  *)
(* once committed), and xmax, the transaction that deleted it (0 if none). *)
(* A failed statement aborts its transaction: what the transaction did is  *)
(* rolled back, its descriptors are released, and later statements fail.   *)

Visible(x, t) == (x.xmin = 0 \/ x.xmin = t) /\ x.xmax # t

Rows(d, t, id) == {r \in d.meta : r.id = id /\ Visible(r, t)}

LoVisible(d, t, oid) == oid \in DOMAIN d.lobs /\ Visible(d.lobs[oid], t)

Undo(x, t) == IF x.xmax = t THEN [x EXCEPT !.xmax = 0] ELSE x

Settle(x, t) == IF x.xmin = t THEN [x EXCEPT !.xmin = 0] ELSE x

\* A rollback that undoes the rows and leaves the large objects.
AbortKeepsObjects(d, t) ==
    [d EXCEPT !.rel = {Undo(v, t) : v \in {x \in d.rel : x.xmin # t}},
              !.meta = {Undo(r, t) : r \in {x \in d.meta : x.xmin # t}},
              !.lobs = [o \in DOMAIN d.lobs |-> Settle(Undo(d.lobs[o], t), t)],
              !.fds[t] = NoFds,
              !.tx[t] = "aborted"]

Abort(d, t) ==
    [d EXCEPT !.rel = {Undo(v, t) : v \in {x \in d.rel : x.xmin # t}},
              !.meta = {Undo(r, t) : r \in {x \in d.meta : x.xmin # t}},
              !.lobs = [o \in {x \in DOMAIN d.lobs : d.lobs[x].xmin # t} |-> Undo(d.lobs[o], t)],
              !.fds[t] = NoFds,
              !.tx[t] = "aborted"]

CommitTx(d, t) ==
    [d EXCEPT !.rel = {Settle(v, t) : v \in {x \in d.rel : x.xmax # t}},
              !.meta = {Settle(r, t) : r \in {x \in d.meta : x.xmax # t}},
              !.lobs = [o \in {x \in DOMAIN d.lobs : d.lobs[x].xmax # t} |-> Settle(d.lobs[o], t)],
              !.fds[t] = NoFds,
              !.tx[t] = "committed"]

Down(d, t) == d.tx[t] # "active"

\* The table pgfs_metadata exists for transaction t.  The statements that
\* change the store (create, open, remove, INSERT) fail without it; the
\* queries of Stat, rootInfo, ReadDir and Readdir are stated for a database
\* on which Up has been executed, as in every specification but SpecMigrate,
\* which has none of them.
HasTable(d, t) == \E v \in d.rel : Visible(v, t)

DownErr(d, t) == IF d.tx[t] = "aborted" THEN ErrTxAborted ELSE ErrTxDone

\* The slot lo_open hands out: the lowest one that is free.
newLOfd(f) ==
    CHOOSE n \in 0..Cardinality(DOMAIN f) :
        n \notin DOMAIN f /\ \A m \in 0..(n - 1) : m \in DOMAIN f

Writable(mode) == (mode \div invWrite) % 2 = 1

\* The bytes of a large object after b is written at offset pos.
Overwrite(old, pos, b) ==
    [i \in 1..Max(Len(old), pos + Len(b)) |->
        IF i > pos /\ i <= pos + Len(b) THEN b[i - pos]
        ELSE IF i <= Len(old) THEN old[i] ELSE 0]

(* ------------------------ io.go: the store requests ------------------- *)
(* Each operator is one round trip.  It returns the database after the     *)
(* request together with what the Go function returns.                     *)

NoInfo ==
    [id |-> 0, oid |-> 0, createdAt |-> zeroTime, mode |-> ModeFile, contentSize |-> 0,
     contentType |-> "", contentSHA256 |-> 0, sys |-> NilSys]

Info(r) ==
    [id |-> r.id, oid |-> r.oid, createdAt |-> r.createdAt, mode |-> ModeFile,
     contentSize |-> r.contentSize, contentType |-> r.contentType,
     contentSHA256 |-> r.contentSHA256, sys |-> SysScan(r.sys)]

\* The entry open fills in: its query leaves the sys column out.
OpenInfo(r) == [Info(r) EXCEPT !.sys = NilSys]

\* A statement that raises an error aborts the transaction.
Raise(d, t, e) == [db |-> Abort(d, t), err |-> e]

\* open that passes sql.ErrNoRows on instead of fs.ErrNotExist.
openUnmapped(d, t, id, mode) ==
    IF Down(d, t) THEN [db |-> d, err |-> DownErr(d, t), fd |-> 0, info |-> NoInfo]
    ELSE IF ~HasTable(d, t)
    THEN [db |-> Abort(d, t), err |-> ErrUndefinedTable, fd |-> 0, info |-> NoInfo]
    ELSE IF Rows(d, t, id) = {}
    THEN [db |-> d, err |-> ErrLibrary, fd |-> 0, info |-> NoInfo]
    ELSE LET r == CHOOSE x \in Rows(d, t, id) : TRUE
             fd == newLOfd(d.fds[t])
         IN  IF ~LoVisible(d, t, r.oid)
             THEN [db |-> Abort(d, t), err |-> ErrNoObject, fd |-> 0, info |-> NoInfo]
             ELSE [db |-> [d EXCEPT !.fds[t] = (fd :> [oid |-> r.oid, pos |-> 0, mode |-> mode]) @@ @],
                   err |-> Nil, fd |-> fd, info |-> OpenInfo(r)]

\* SELECT ... lo_open(oid, $2) FROM pgfs_metadata WHERE id = $1
open(d, t, id, mode) ==
    IF Down(d, t) THEN [db |-> d, err |-> DownErr(d, t), fd |-> 0, info |-> NoInfo]
    ELSE IF ~HasTable(d, t)
    THEN [db |-> Abort(d, t), err |-> ErrUndefinedTable, fd |-> 0, info |-> NoInfo]
    ELSE IF Rows(d, t, id) = {}
    THEN [db |-> d, err |-> ErrNotExist, fd |-> 0, info |-> NoInfo]
    ELSE LET r == CHOOSE x \in Rows(d, t, id) : TRUE
             fd == newLOfd(d.fds[t])
         IN  IF ~LoVisible(d, t, r.oid)
             THEN [db |-> Abort(d, t), err |-> ErrNoObject, fd |-> 0, info |-> NoInfo]
             ELSE [db |-> [d EXCEPT !.fds[t] = (fd :> [oid |-> r.oid, pos |-> 0, mode |-> mode]) @@ @],
                   err |-> Nil, fd |-> fd, info |-> OpenInfo(r)]

\* create without the NOT EXISTS guard on the metadata table.
createUnguarded(d, t, id) ==
    IF Down(d, t) THEN [db |-> d, err |-> DownErr(d, t), oid |-> 0, fd |-> 0]
    ELSE IF ~HasTable(d, t)
    THEN [db |-> Abort(d, t), err |-> ErrUndefinedTable, oid |-> 0, fd |-> 0]
    ELSE LET oid == d.nextOid
             fd == newLOfd(d.fds[t])
         IN  [db |-> [d EXCEPT !.nextOid = @ + 1,
                               !.lobs = (oid :> [data |-> <<>>, xmin |-> t, xmax |-> 0]) @@ @,
                               !.fds[t] = (fd :> [oid |-> oid, pos |-> 0,
                                                  mode |-> invRead + invWrite]) @@ @],
              err |-> Nil, oid |-> oid, fd |-> fd]

\* WITH meta AS (SELECT id ... WHERE id = $1),
\*      lob AS (SELECT lo_create(0) AS oid WHERE NOT EXISTS (SELECT id FROM meta))
\* SELECT oid, lo_open(oid, $2) WHERE EXISTS (SELECT oid FROM lob)
create(d, t, id) ==
    IF Down(d, t) THEN [db |-> d, err |-> DownErr(d, t), oid |-> 0, fd |-> 0]
    ELSE IF ~HasTable(d, t)
    THEN [db |-> Abort(d, t), err |-> ErrUndefinedTable, oid |-> 0, fd |-> 0]
    ELSE IF Rows(d, t, id) # {}
    THEN [db |-> d, err |-> ErrExist, oid |-> 0, fd |-> 0]
    ELSE LET oid == d.nextOid
             fd == newLOfd(d.fds[t])
         IN  [db |-> [d EXCEPT !.nextOid = @ + 1,
                               !.lobs = (oid :> [data |-> <<>>, xmin |-> t, xmax |-> 0]) @@ @,
                               !.fds[t] = (fd :> [oid |-> oid, pos |-> 0,
                                                  mode |-> invRead + invWrite]) @@ @],
              err |-> Nil, oid |-> oid, fd |-> fd]

\* SELECT lowrite($1, $2): the answer of a store that accepts the first k
\* bytes of b, or that answers the negative length k and accepts nothing.
lowriteSome(d, t, fd, b, k) ==
    IF Down(d, t) THEN [db |-> d, err |-> DownErr(d, t), n |-> 0]
    ELSE IF fd \notin DOMAIN d.fds[t] THEN [db |-> Abort(d, t), err |-> ErrBadDescriptor, n |-> 0]
    ELSE IF ~Writable(d.fds[t][fd].mode) THEN [db |-> Abort(d, t), err |-> ErrNotWritable, n |-> 0]
    ELSE IF k < 0 THEN [db |-> d, err |-> Nil, n |-> k]
    ELSE LET c == d.fds[t][fd]
         IN  [db |-> [d EXCEPT !.lobs[c.oid].data = Overwrite(@, c.pos, SubSeq(b, 1, k)),
                               !.fds[t][fd].pos = @ + k],
              err |-> Nil, n |-> k]

\* SELECT lowrite($1, $2): the database's answer.  It accepts all of b.
lowrite(d, t, fd, b) == lowriteSome(d, t, fd, b, Len(b))

\* write that takes every answer without an error for a full write.
writeSomeSilent(d, t, fd, b, k) ==
    LET r == lowriteSome(d, t, fd, b, k)
    IN  CASE r.err # Nil -> r
          [] r.n < 0 -> [r EXCEPT !.err = ErrLibrary]
          [] OTHER -> r

\* write when the store accepts the first k bytes of b: the answer of lowrite
\* as write returns it.
writeSome(d, t, fd, b, k) ==
    LET r == lowriteSome(d, t, fd, b, k)
    IN  CASE r.err # Nil -> r
          [] r.n < 0 -> [r EXCEPT !.err = ErrLibrary]
          [] r.n < Len(b) -> [r EXCEPT !.err = ErrShortWrite]
          [] OTHER -> r

\* write: the answer of lowrite as write returns it.
write(d, t, fd, b) == writeSome(d, t, fd, b, Len(b))

\* read that signals io.EOF when the bytes it returns reach the end of the
\* object.
readEOFAtEnd(d, t, fd, lenp) ==
    IF Down(d, t) THEN [db |-> d, err |-> DownErr(d, t), n |-> 0, data |-> <<>>]
    ELSE IF fd \notin DOMAIN d.fds[t]
    THEN [db |-> Abort(d, t), err |-> ErrBadDescriptor, n |-> 0, data |-> <<>>]
    ELSE LET c == d.fds[t][fd]
             all == d.lobs[c.oid].data
             buf == SubSeq(all, c.pos + 1, Min(c.pos + lenp, Len(all)))
         IN  [db |-> [d EXCEPT !.fds[t][fd].pos = @ + Len(buf)],
              err |-> IF c.pos + Len(buf) >= Len(all) THEN EOF ELSE Nil,
              n |-> Len(buf), data |-> buf]

\* SELECT loread($1, $2), and read's copy into p (lenp = len(p)).
read(d, t, fd, lenp) ==
    IF Down(d, t) THEN [db |-> d, err |-> DownErr(d, t), n |-> 0, data |-> <<>>]
    ELSE IF fd \notin DOMAIN d.fds[t]
    THEN [db |-> Abort(d, t), err |-> ErrBadDescriptor, n |-> 0, data |-> <<>>]
    ELSE LET c == d.fds[t][fd]
             all == d.lobs[c.oid].data
             buf == SubSeq(all, c.pos + 1, Min(c.pos + lenp, Len(all)))
         IN  [db |-> [d EXCEPT !.fds[t][fd].pos = @ + Len(buf)],
              err |-> IF lenp # Len(buf) THEN EOF ELSE Nil,
              n |-> Len(buf), data |-> buf]

\* SELECT lo_lseek64($1, $2, $3): the database's answer.  A target before the
\* first byte is an error; one past the last byte is not.
lo_lseek64(d, t, fd, offset, whence) ==
    IF Down(d, t) THEN [db |-> d, err |-> DownErr(d, t), n |-> 0]
    ELSE IF fd \notin DOMAIN d.fds[t] THEN [db |-> Abort(d, t), err |-> ErrBadDescriptor, n |-> 0]
    ELSE IF whence \notin Whences THEN [db |-> Abort(d, t), err |-> ErrWhence, n |-> 0]
    ELSE LET c == d.fds[t][fd]
             target == CASE whence = SeekStart -> offset
                         [] whence = SeekCurrent -> c.pos + offset
                         [] whence = SeekEnd -> Len(d.lobs[c.oid].data) + offset
         IN  IF target < 0 THEN [db |-> Abort(d, t), err |-> ErrSeekTarget, n |-> 0]
             ELSE [db |-> [d EXCEPT !.fds[t][fd].pos = target], err |-> Nil, n |-> target]

\* seek that measures every offset from the first byte.
seekFromStart(d, t, fd, offset, whence) ==
    LET r == lo_lseek64(d, t, fd, offset, SeekStart)
    IN  CASE r.err # Nil -> r
          [] r.n = -1 -> [r EXCEPT !.err = ErrLibrary]
          [] OTHER -> r

\* seek: the answer of lo_lseek64 as seek returns it.
seek(d, t, fd, offset, whence) ==
    LET r == lo_lseek64(d, t, fd, offset, whence)
    IN  CASE r.err # Nil -> r
          [] r.n = -1 -> [r EXCEPT !.err = ErrLibrary]
          [] OTHER -> r

\* SELECT lo_close($1)
close(d, t, fd) ==
    IF Down(d, t) THEN [db |-> d, err |-> DownErr(d, t)]
    ELSE IF fd \notin DOMAIN d.fds[t] THEN Raise(d, t, ErrBadDescriptor)
    ELSE [db |-> [d EXCEPT !.fds[t] = Drop(@, fd)], err |-> Nil]

\* A DELETE waits while another transaction in progress has deleted the row.
removeWaits(d, t, id) ==
    ~Down(d, t) /\ \E r \in Rows(d, t, id) : r.xmax # 0 /\ d.tx[r.xmax] = "active"

\* remove that deletes the row and leaves the large object.
removeRowOnly(d, t, id) ==
    IF Down(d, t) THEN [db |-> d, err |-> DownErr(d, t)]
    ELSE IF ~HasTable(d, t) THEN Raise(d, t, ErrUndefinedTable)
    ELSE IF Rows(d, t, id) = {} THEN [db |-> d, err |-> ErrNotExist]
    ELSE LET r == CHOOSE x \in Rows(d, t, id) : TRUE
             rest == d.meta \ {r}
             meta1 == IF r.xmin = t THEN rest ELSE rest \cup {[r EXCEPT !.xmax = t]}
         IN  [db |-> [d EXCEPT !.meta = meta1], err |-> Nil]

\* remove that unlinks the large object and leaves the row.
removeObjectOnly(d, t, id) ==
    IF Down(d, t) THEN [db |-> d, err |-> DownErr(d, t)]
    ELSE IF ~HasTable(d, t) THEN Raise(d, t, ErrUndefinedTable)
    ELSE IF Rows(d, t, id) = {} THEN [db |-> d, err |-> ErrNotExist]
    ELSE LET r == CHOOSE x \in Rows(d, t, id) : TRUE
             lobs1 == IF d.lobs[r.oid].xmin = t
                      THEN Drop(d.lobs, r.oid)
                      ELSE [d.lobs EXCEPT ![r.oid].xmax = t]
             fds1 == [k \in {x \in DOMAIN d.fds[t] : d.fds[t][x].oid # r.oid} |-> d.fds[t][k]]
         IN  IF ~LoVisible(d, t, r.oid) THEN Raise(d, t, ErrNoObject)
             ELSE [db |-> [d EXCEPT !.lobs = lobs1, !.fds[t] = fds1], err |-> Nil]

\* WITH meta AS (DELETE FROM pgfs_metadata WHERE id = $1 RETURNING oid)
\* SELECT lo_unlink((SELECT oid FROM meta)) WHERE EXISTS (SELECT oid FROM meta)
\* lo_unlink also closes the session's descriptors of the object.
remove(d, t, id) ==
    IF Down(d, t) THEN [db |-> d, err |-> DownErr(d, t)]
    ELSE IF ~HasTable(d, t) THEN Raise(d, t, ErrUndefinedTable)
    ELSE IF Rows(d, t, id) = {} THEN [db |-> d, err |-> ErrNotExist]
    ELSE LET r == CHOOSE x \in Rows(d, t, id) : TRUE
             rest == d.meta \ {r}
             meta1 == IF r.xmin = t THEN rest ELSE rest \cup {[r EXCEPT !.xmax = t]}
             lobs1 == IF d.lobs[r.oid].xmin = t
                      THEN Drop(d.lobs, r.oid)
                      ELSE [d.lobs EXCEPT ![r.oid].xmax = t]
             fds1 == [k \in {x \in DOMAIN d.fds[t] : d.fds[t][x].oid # r.oid} |-> d.fds[t][k]]
         IN  IF ~LoVisible(d, t, r.oid) THEN Raise(d, t, ErrNoObject)
             ELSE [db |-> [d EXCEPT !.meta = meta1, !.lobs = lobs1, !.fds[t] = fds1],
                   err |-> Nil]

\* An INSERT waits while another transaction in progress holds a row with the
\* same key: one it inserted, or a committed one it has deleted.
Conflicts(d, t, row) ==
    {r \in d.meta : (r.id = row.id \/ r.oid = row.oid) /\ r.xmax # t}

insertWaits(d, t, row) ==
    ~Down(d, t) /\ \E r \in Conflicts(d, t, row) :
        \/ r.xmin \notin {0, t}
        \/ r.xmax # 0 /\ d.tx[r.xmax] = "active"

\* INSERT INTO pgfs_metadata (oid, id, sys, content_size, content_type, content_sha256)
\* under the table's PRIMARY KEY (id) and UNIQUE (oid).
insert(d, t, row) ==
    IF Down(d, t) THEN [db |-> d, err |-> DownErr(d, t)]
    ELSE IF ~HasTable(d, t) THEN Raise(d, t, ErrUndefinedTable)
    ELSE IF Conflicts(d, t, row) # {} THEN Raise(d, t, ErrUniqueViolation)
    ELSE [db |-> [d EXCEPT !.meta = @ \cup {row}], err |-> Nil]

\* SELECT ... FROM pgfs_metadata WHERE id = $1
selectRow(d, t, id) ==
    IF Down(d, t) THEN [err |-> DownErr(d, t), info |-> NoInfo]
    ELSE IF Rows(d, t, id) = {} THEN [err |-> ErrNotExist, info |-> NoInfo]
    ELSE [err |-> Nil, info |-> Info(CHOOSE x \in Rows(d, t, id) : TRUE)]

(* --------------------------- results of calls ------------------------- *)

\* What the most recent call returned: op and its receiver (tx: the FS's
\* transaction, h: the handle, id: the parsed name), then the error, the
\* count, the bytes and the file info it returned.
Result(op, t, h, id, err, n, data, info) ==
    [op |-> op, tx |-> t, h |-> h, id |-> id, err |-> err, n |-> n, data |-> data, info |-> info,
     name |-> "", entries |-> <<>>]

\* The result of a call that was given a name.
Named(name, r) == [r EXCEPT !.name = name]

(* ------------------------------ fs.go: FS ----------------------------- *)

\* The rows transaction t sees.
VisibleRows(d, t) == {r \in d.meta : Visible(r, t)}

\* SUM(content_size) over a set of rows.
RECURSIVE SumSize(_)
SumSize(S) ==
    IF S = {} THEN 0
    ELSE LET r == CHOOSE x \in S : TRUE
         IN  r.contentSize + SumSize(S \ {r})

\* ORDER BY id ASC: the rows of S as a sequence.
RECURSIVE SortById(_)
SortById(S) ==
    IF S = {} THEN <<>>
    ELSE LET r == CHOOSE x \in S : \A y \in S : x.id <= y.id
         IN  <<r>> \o SortById(S \ {r})

\* The entries Scan builds from a sequence of rows.
Entries(rows) == [k \in 1..Len(rows) |-> Info(rows[k])]

\* rootInfo with the size of the latest row in place of the sum.
rootInfoLatest(d, t) ==
    LET fi == [NoInfo EXCEPT !.id = rootUUID, !.mode = ModeDir]
        rows == VisibleRows(d, t)
        top == CHOOSE x \in rows : \A y \in rows : x.createdAt >= y.createdAt
    IN  IF Down(d, t) THEN [err |-> DownErr(d, t), info |-> NoInfo]
        ELSE IF rows = {} THEN [err |-> Nil, info |-> fi]
        ELSE [err |-> Nil,
              info |-> [fi EXCEPT !.createdAt = top.createdAt, !.contentSize = top.contentSize]]

\* FS.rootInfo: one row, the latest by created_at, with the sum of the sizes.
\* With no row QueryRow.Scan returns sql.ErrNoRows, which rootInfo drops,
\* leaving fi as it was built.
rootInfo(d, t) ==
    LET fi == [NoInfo EXCEPT !.id = rootUUID, !.mode = ModeDir]
        rows == VisibleRows(d, t)
        top == CHOOSE x \in rows : \A y \in rows : x.createdAt >= y.createdAt
    IN  IF Down(d, t) THEN [err |-> DownErr(d, t), info |-> NoInfo]
        ELSE IF rows = {} THEN [err |-> Nil, info |-> fi]
        ELSE [err |-> Nil,
              info |-> [fi EXCEPT !.createdAt = top.createdAt, !.contentSize = SumSize(rows)]]

\* Stat that sends its query before it parses the name.
StatQueryFirst(t, name) ==
    /\ LET p == uuidParse(name)
           r == selectRow(db, t, p.id)
           ri == rootInfo(db, t)
       IN  last' = Named(name,
                     IF name = ""
                     THEN Result("Stat", t, 0, rootUUID, ri.err, 0, <<>>, ri.info)
                     ELSE IF Down(db, t)
                     THEN Result("Stat", t, 0, 0, DownErr(db, t), 0, <<>>, NoInfo)
                     ELSE IF ~p.ok
                     THEN Result("Stat", t, 0, 0, ErrNotExist, 0, <<>>, NoInfo)
                     ELSE Result("Stat", t, 0, p.id, r.err, 0, <<>>, r.info))
    /\ UNCHANGED <<db, writers, files, dirs>>

\* FS.Stat.
Stat(t, name) ==
    /\ LET p == uuidParse(name)
           r == selectRow(db, t, p.id)
           ri == rootInfo(db, t)
       IN  last' = Named(name,
                     IF name = ""
                     THEN Result("Stat", t, 0, rootUUID, ri.err, 0, <<>>, ri.info)
                     ELSE IF ~p.ok
                     THEN Result("Stat", t, 0, 0, ErrNotExist, 0, <<>>, NoInfo)
                     ELSE Result("Stat", t, 0, p.id, r.err, 0, <<>>, r.info))
    /\ UNCHANGED <<db, writers, files, dirs>>

\* The records of a set of rows or of a sequence of entries, each as <<id, oid>>.
Keys(rows) == {<<r.id, r.oid>> : r \in rows}

KeysOf(entries) == {<<entries[k].id, entries[k].oid>> : k \in DOMAIN entries}

\* FS.Open: the root directory for the empty name, a file otherwise.  Two
\* fields of a directory handle are history besides those Readdir explains:
\* `had`, the records there were when it was opened, and `seen`, the records
\* its Readdir calls have returned.
Open(t, name) ==
    LET p == uuidParse(name)
        r == open(db, t, p.id, invRead)
        ri == rootInfo(db, t)
    IN  IF name = ""
        THEN IF ri.err # Nil
             THEN /\ last' = Named(name, Result("Open", t, 0, rootUUID, ri.err, 0, <<>>, NoInfo))
                  /\ UNCHANGED <<db, writers, files, dirs>>
             ELSE /\ Len(dirs) < MaxDirs
                  /\ dirs' = Append(dirs, [tx |-> t, cur |-> 0, info |-> ri.info,
                                           closed |-> FALSE, exhausted |-> FALSE, top |-> 0,
                                           released |-> FALSE, had |-> Keys(VisibleRows(db, t)),
                                           seen |-> {}])
                  /\ last' = Named(name, Result("Open", t, Len(dirs) + 1, rootUUID, Nil, 0,
                                                <<>>, ri.info))
                  /\ UNCHANGED <<db, writers, files>>
        ELSE IF ~p.ok
        THEN /\ last' = Named(name, Result("Open", t, 0, 0, ErrNotExist, 0, <<>>, NoInfo))
             /\ UNCHANGED <<db, writers, files, dirs>>
        ELSE IF r.err # Nil
        THEN /\ last' = Named(name, Result("Open", t, 0, p.id, r.err, 0, <<>>, NoInfo))
             /\ db' = r.db
             /\ UNCHANGED <<writers, files, dirs>>
        ELSE /\ Len(files) < MaxFiles
             /\ db' = r.db
             /\ files' = Append(files, [tx |-> t, fd |-> r.fd, pos |-> 0,
                                        info |-> r.info, closed |-> FALSE,
                                        released |-> FALSE, at |-> 0])
             /\ last' = Named(name, Result("Open", t, Len(files) + 1, p.id, Nil, 0, <<>>, r.info))
             /\ UNCHANGED <<writers, dirs>>

\* io.ReadAll: Read into a buffer of 512 bytes until an error, io.EOF included.
RECURSIVE ReadAll(_, _, _, _)
ReadAll(d, t, fd, acc) ==
    LET r == read(d, t, fd, 512)
    IN  IF r.err # Nil
        THEN [db |-> r.db, err |-> IF r.err = EOF THEN Nil ELSE r.err, data |-> acc \o r.data]
        ELSE ReadAll(r.db, t, fd, acc \o r.data)

\* FS.ReadFile: Open, io.ReadAll, and the deferred Close.  On the root the
\* first dir.Read returns fs.ErrInvalid, which io.ReadAll passes on.
ReadFile(t, name) ==
    /\ LET p == uuidParse(name)
           r == open(db, t, p.id, invRead)
           a == ReadAll(r.db, t, r.fd, <<>>)
           c == close(a.db, t, r.fd)
           ri == rootInfo(db, t)
       IN  IF name = ""
           THEN /\ last' = Named(name, Result("ReadFile", t, 0, rootUUID,
                                   IF ri.err # Nil THEN ri.err ELSE ErrInvalid,
                                   0, <<>>, NoInfo))
                /\ UNCHANGED db
           ELSE IF ~p.ok
           THEN /\ last' = Named(name, Result("ReadFile", t, 0, 0, ErrNotExist, 0, <<>>, NoInfo))
                /\ UNCHANGED db
           ELSE IF r.err # Nil
           THEN /\ last' = Named(name, Result("ReadFile", t, 0, p.id, r.err, 0, <<>>, NoInfo))
                /\ db' = r.db
           ELSE /\ last' = Named(name, Result("ReadFile", t, 0, p.id, a.err, 0, a.data, NoInfo))
                /\ db' = c.db
    /\ UNCHANGED <<writers, files, dirs>>

\* ReadDir over every row of the table, those the transaction deleted included.
ReadDirAll(t, name) ==
    /\ last' = Named(name,
                 IF Down(db, t)
                 THEN Result("ReadDir", t, 0, 0, DownErr(db, t), 0, <<>>, NoInfo)
                 ELSE [Result("ReadDir", t, 0, 0, Nil, 0, <<>>, NoInfo)
                          EXCEPT !.entries = Entries(SortById(db.meta))])
    /\ UNCHANGED <<db, writers, files, dirs>>

\* FS.ReadDir when the store delivers k rows and then, if there are more,
\* fails: rows.Next returns false, the loop ends, and rows.Err is not looked
\* at.  The failure aborts the transaction.  The name is not looked at.
ReadDirSome(t, name, k) ==
    LET rows == SortById(VisibleRows(db, t))
        got == SubSeq(rows, 1, Min(k, Len(rows)))
    IN  /\ last' = Named(name,
                      IF Down(db, t)
                      THEN Result("ReadDir", t, 0, 0, DownErr(db, t), 0, <<>>, NoInfo)
                      ELSE [Result("ReadDir", t, 0, 0, Nil, 0, <<>>, NoInfo)
                               EXCEPT !.entries = Entries(got)])
        /\ db' = IF ~Down(db, t) /\ k < Len(rows) THEN Abort(db, t) ELSE db
        /\ UNCHANGED <<writers, files, dirs>>

\* FS.ReadDir: every row in the order of the ids.
ReadDir(t, name) == ReadDirSome(t, name, Cardinality(db.meta))

\* The writer FS.Create returns.  Five fields are history, not fields of the
\* Go struct: `given`, the bytes of the Write calls that returned without
\* error; `stored`, the bytes the store accepted; `calls`, the number of Write
\* calls it accepted bytes of; `finished`, whether a Close has returned nil;
\* and `asked`, the content type given to Create.
newWriter(t, r, id, contentType, sys) ==
    [tx |-> t, fd |-> r.fd, oid |-> r.oid, id |-> id, sys |-> sys,
     contentType |-> contentType, asked |-> contentType, size |-> 0, hasher |-> shaNew,
     closed |-> FALSE, tag |-> <<>>, given |-> <<>>, stored |-> <<>>, calls |-> 0,
     finished |-> FALSE]

\* Create that answers a bad name as Stat does, with fs.ErrNotExist.
CreateNotExist(t, name, contentType) ==
    /\ LET p == uuidParse(name)
           r == create(db, t, p.id)
       IN  IF ~p.ok
           THEN /\ last' = Named(name, Result("Create", t, 0, 0, ErrNotExist, 0, <<>>, NoInfo))
                /\ UNCHANGED <<db, writers>>
           ELSE IF r.err # Nil
           THEN /\ last' = Named(name, Result("Create", t, 0, p.id, r.err, 0, <<>>, NoInfo))
                /\ db' = r.db
                /\ UNCHANGED writers
           ELSE /\ Len(writers) < MaxWriters
                /\ db' = r.db
                /\ writers' = Append(writers, newWriter(t, r, p.id, contentType, NilSys))
                /\ last' = Named(name, Result("Create", t, Len(writers) + 1, p.id, Nil, 0,
                                              <<>>, NoInfo))
    /\ UNCHANGED <<files, dirs>>

\* FS.Create with the attribute map sys.
CreateSys(t, name, contentType, sys) ==
    /\ LET p == uuidParse(name)
           r == create(db, t, p.id)
       IN  IF ~p.ok
           THEN /\ last' = Named(name, Result("Create", t, 0, 0, PathError, 0, <<>>, NoInfo))
                /\ UNCHANGED <<db, writers>>
           ELSE IF r.err # Nil
           THEN /\ last' = Named(name, Result("Create", t, 0, p.id, r.err, 0, <<>>, NoInfo))
                /\ db' = r.db
                /\ UNCHANGED writers
           ELSE /\ Len(writers) < MaxWriters
                /\ db' = r.db
                /\ writers' = Append(writers, newWriter(t, r, p.id, contentType, sys))
                /\ last' = Named(name, Result("Create", t, Len(writers) + 1, p.id, Nil, 0,
                                              <<>>, NoInfo))
    /\ UNCHANGED <<files, dirs>>

\* FS.Create with a nil attribute map.
Create(t, name, contentType) == CreateSys(t, name, contentType, NilSys)

\* FS.Remove.
Remove(t, name) ==
    /\ LET p == uuidParse(name)
           r == remove(db, t, p.id)
       IN  IF ~p.ok
           THEN /\ last' = Named(name, Result("Remove", t, 0, 0, ErrNotExist, 0, <<>>, NoInfo))
                /\ UNCHANGED db
           ELSE /\ ~removeWaits(db, t, p.id)
                /\ db' = r.db
                /\ last' = Named(name, Result("Remove", t, 0, p.id, r.err, 0, <<>>, NoInfo))
    /\ UNCHANGED <<writers, files, dirs>>

(* ----------------------------- writer.go ------------------------------ *)

\* written with the size set to the last count instead of added to.
writtenLast(w, b, n, err) ==
    LET m == fileTagSize - Len(w.tag)
        i == Min(n, m)
    IN  [w EXCEPT !.size = n,
                  !.hasher = shaWrite(@, SubSeq(b, 1, n)),
                  !.tag = IF w.contentType = "" /\ n > 0 /\ m > 0
                          THEN @ \o SubSeq(b, 1, i) ELSE @,
                  !.given = IF err = Nil THEN @ \o b ELSE @,
                  !.stored = @ \o SubSeq(b, 1, n),
                  !.calls = IF n > 0 THEN @ + 1 ELSE @]

\* written that keeps every byte for content-type detection.
writtenKeepsAll(w, b, n, err) ==
    [w EXCEPT !.size = @ + n,
              !.hasher = shaWrite(@, SubSeq(b, 1, n)),
              !.tag = IF w.contentType = "" /\ n > 0 THEN @ \o SubSeq(b, 1, n) ELSE @,
              !.given = IF err = Nil THEN @ \o b ELSE @,
              !.stored = @ \o SubSeq(b, 1, n),
              !.calls = IF n > 0 THEN @ + 1 ELSE @]

\* The writer after Write(b) when the store accepted n bytes: size, hasher
\* and the first 512 bytes kept for content-type detection.
written(w, b, n, err) ==
    LET m == fileTagSize - Len(w.tag)
        i == Min(n, m)
    IN  [w EXCEPT !.size = @ + n,
                  !.hasher = shaWrite(@, SubSeq(b, 1, n)),
                  !.tag = IF w.contentType = "" /\ n > 0 /\ m > 0
                          THEN @ \o SubSeq(b, 1, i) ELSE @,
                  !.given = IF err = Nil THEN @ \o b ELSE @,
                  !.stored = @ \o SubSeq(b, 1, n),
                  !.calls = IF n > 0 THEN @ + 1 ELSE @]

\* writer.Write when the store accepts the first k bytes of b, or answers the
\* negative length k.  The result carries the argument b as data.  With a
\* negative n, `w.size += int64(n)` is executed and `b[:n]` panics: Write does
\* not return, and the result carries Panic as its error.
writerWriteSome(i, b, k) ==
    LET w == writers[i]
        r == writeSome(db, w.tx, w.fd, b, k)
    IN  /\ IF w.closed
           THEN /\ last' = Result("Write", w.tx, i, w.id, ErrClosed, 0, b, NoInfo)
                /\ UNCHANGED <<db, writers>>
           ELSE IF r.n < 0
           THEN /\ w.size + r.n >= 0 - MaxCalls
                /\ db' = r.db
                /\ writers' = [writers EXCEPT ![i].size = @ + r.n]
                /\ last' = Result("Write", w.tx, i, w.id, Panic, r.n, b, NoInfo)
           ELSE /\ w.calls < MaxCalls
                /\ db' = r.db
                /\ writers' = [writers EXCEPT ![i] = written(w, b, r.n, r.err)]
                /\ last' = Result("Write", w.tx, i, w.id, r.err, r.n, b, NoInfo)
        /\ UNCHANGED <<files, dirs>>

\* writer.Write without the test of w.closed.
writerWriteUnchecked(i, b) ==
    LET w == writers[i]
        r == write(db, w.tx, w.fd, b)
    IN  /\ w.size + Len(b) <= MaxLen
        /\ db' = r.db
        /\ writers' = [writers EXCEPT ![i] = written(w, b, r.n, r.err)]
        /\ last' = Result("Write", w.tx, i, w.id, r.err, r.n, b, NoInfo)
        /\ UNCHANGED <<files, dirs>>

\* writer.Write on the database, which accepts all of b.
writerWrite(i, b) ==
    /\ writers[i].closed \/ writers[i].size + Len(b) <= MaxLen
    /\ writerWriteSome(i, b, Len(b))

\* The row writer.Close inserts, with the content type as it is.
closeRowAsGiven(w) ==
    [id |-> w.id, oid |-> w.oid, createdAt |-> now(w.tx), contentSize |-> w.size,
     contentType |-> w.contentType, contentSHA256 |-> w.hasher, sys |-> SysValue(w.sys),
     xmin |-> w.tx, xmax |-> 0]

\* The row writer.Close inserts.
closeRow(w) ==
    LET contentType == IF w.contentType = "" THEN DetectContentType(w.tag) ELSE w.contentType
    IN  [id |-> w.id, oid |-> w.oid, createdAt |-> now(w.tx), contentSize |-> w.size,
         contentType |-> contentType, contentSHA256 |-> w.hasher, sys |-> SysValue(w.sys),
         xmin |-> w.tx, xmax |-> 0]

\* writer.Close.
writerClose(i) ==
    LET w == writers[i]
        row == closeRow(w)
        w1 == [w EXCEPT !.contentType = row.contentType]
        r1 == insert(db, w.tx, row)
        r2 == close(r1.db, w.tx, w.fd)
    IN  /\ IF w.closed
           THEN /\ last' = Result("Close", w.tx, i, w.id, ErrClosed, 0, <<>>, NoInfo)
                /\ UNCHANGED <<db, writers>>
           ELSE /\ ~insertWaits(db, w.tx, row)
                /\ IF r1.err # Nil
                   THEN /\ db' = r1.db
                        /\ writers' = [writers EXCEPT ![i] = w1]
                        /\ last' = Result("Close", w.tx, i, w.id, r1.err, 0, <<>>, NoInfo)
                   ELSE IF r2.err # Nil
                   THEN /\ db' = r2.db
                        /\ writers' = [writers EXCEPT ![i] = w1]
                        /\ last' = Result("Close", w.tx, i, w.id, r2.err, 0, <<>>, NoInfo)
                   ELSE /\ db' = r2.db
                        /\ writers' = [writers EXCEPT ![i] = [w1 EXCEPT !.closed = TRUE,
                                                                        !.finished = TRUE]]
                        /\ last' = Result("Close", w.tx, i, w.id, Nil, 0, <<>>, NoInfo)
        /\ UNCHANGED <<files, dirs>>

(* ------------------------------ file.go ------------------------------- *)

\* file.Read with a buffer of lenp bytes.  `at` is history, not a field of
\* the Go struct: the position the results returned through the handle add up
\* to, 0 when it is opened.
fileRead(i, lenp) ==
    LET f == files[i]
        r == read(db, f.tx, f.fd, lenp)
    IN  /\ f.at + r.n <= MaxPos
        /\ db' = r.db
        /\ files' = [files EXCEPT ![i].at = @ + r.n]
        /\ last' = Result("Read", f.tx, i, f.info.id, r.err, r.n, r.data, NoInfo)
        /\ UNCHANGED <<writers, dirs>>

\* file.Stat that answers with the info captured by Open.
fileStatCaptured(i) ==
    LET f == files[i]
    IN  /\ last' = Named(uuidString(f.info.id),
                      Result("FileStat", f.tx, i, f.info.id, Nil, 0, <<>>, f.info))
        /\ UNCHANGED <<db, writers, files, dirs>>

\* file.Stat: FS.Stat of the name the handle was opened with, asked again at
\* every call.
fileStat(i) ==
    LET f == files[i]
        name == uuidString(f.info.id)
        p == uuidParse(name)
        r == selectRow(db, f.tx, p.id)
        ri == rootInfo(db, f.tx)
    IN  /\ last' = Named(name,
                      IF name = ""
                      THEN Result("FileStat", f.tx, i, rootUUID, ri.err, 0, <<>>, ri.info)
                      ELSE IF ~p.ok
                      THEN Result("FileStat", f.tx, i, 0, ErrNotExist, 0, <<>>, NoInfo)
                      ELSE Result("FileStat", f.tx, i, p.id, r.err, 0, <<>>, r.info))
        /\ UNCHANGED <<db, writers, files, dirs>>

\* file.Seek.  The result carries the arguments, <<offset, whence>>, as data.
fileSeek(i, offset, whence) ==
    LET f == files[i]
        r == seek(db, f.tx, f.fd, offset, whence)
    IN  /\ r.n <= MaxPos
        /\ db' = r.db
        /\ files' = IF r.err # Nil THEN files
                     ELSE [files EXCEPT ![i].pos = r.n, ![i].at = r.n]
        /\ last' = Result("Seek", f.tx, i, f.info.id, r.err, r.n, <<offset, whence>>, NoInfo)
        /\ UNCHANGED <<writers, dirs>>

\* file.Close.  `released` is history: whether a Close has returned nil.
fileClose(i) ==
    LET f == files[i]
        r == close(db, f.tx, f.fd)
    IN  /\ IF f.closed
           THEN /\ last' = Result("FileClose", f.tx, i, f.info.id, ErrClosed, 0, <<>>, NoInfo)
                /\ UNCHANGED <<db, files>>
           ELSE /\ db' = r.db
                /\ files' = [files EXCEPT ![i].closed = IF r.err # Nil THEN TRUE ELSE @,
                                          ![i].released = IF r.err = Nil THEN TRUE ELSE @]
                /\ last' = Result("FileClose", f.tx, i, f.info.id, r.err, 0, <<>>, NoInfo)
        /\ UNCHANGED <<writers, dirs>>

(* --------------------------- file.go: dir ----------------------------- *)

\* SELECT ... FROM pgfs_metadata ORDER BY id ASC OFFSET cur LIMIT n
page(d, t, cur, n) ==
    LET rows == SortById(VisibleRows(d, t))
    IN  SubSeq(rows, cur + 1, Min(cur + n, Len(rows)))

\* The greatest id among entries and top.
MaxId(entries, top) ==
    LET ids == {entries[k].id : k \in DOMAIN entries} \cup {top}
    IN  CHOOSE x \in ids : \A y \in ids : x >= y

\* Readdir that signals io.EOF only with an empty page.
ReaddirLateEOF(i, n) ==
    LET d == dirs[i]
        entries == Entries(page(db, d.tx, d.cur, n))
        err == IF Len(entries) = 0 THEN EOF ELSE Nil
    IN  /\ IF Down(db, d.tx)
           THEN /\ last' = Result("Readdir", d.tx, i, rootUUID, DownErr(db, d.tx), n, <<>>, NoInfo)
                /\ UNCHANGED dirs
           ELSE /\ dirs' = [dirs EXCEPT ![i].cur = @ + Len(entries),
                                        ![i].exhausted = @ \/ err = EOF,
                                        ![i].top = MaxId(entries, @),
                                        ![i].seen = @ \cup KeysOf(entries)]
                /\ last' = [Result("Readdir", d.tx, i, rootUUID, err, n, <<>>, NoInfo)
                               EXCEPT !.entries = entries]
        /\ UNCHANGED <<db, writers, files>>

\* dir.Readdir(n) when the store delivers k rows of the page and then, if
\* there are more, fails: rows.Next returns false, the loop ends, and rows.Err
\* is not looked at.  The failure aborts the transaction.  The result's n is
\* the count asked for.  `exhausted` and `top` are history: whether a Readdir
\* of the handle has returned io.EOF, and the greatest id the handle has
\* returned (0 before the first).
ReaddirSome(i, n, k) ==
    LET d == dirs[i]
        rows == page(db, d.tx, d.cur, n)
        entries == Entries(SubSeq(rows, 1, Min(k, Len(rows))))
        err == IF Len(entries) < n THEN EOF ELSE Nil
    IN  /\ IF Down(db, d.tx)
           THEN /\ last' = Result("Readdir", d.tx, i, rootUUID, DownErr(db, d.tx), n, <<>>, NoInfo)
                /\ UNCHANGED <<db, dirs>>
           ELSE /\ dirs' = [dirs EXCEPT ![i].cur = @ + Len(entries),
                                        ![i].exhausted = @ \/ err = EOF,
                                        ![i].top = MaxId(entries, @),
                                        ![i].seen = @ \cup KeysOf(entries)]
                /\ last' = [Result("Readdir", d.tx, i, rootUUID, err, n, <<>>, NoInfo)
                               EXCEPT !.entries = entries]
                /\ db' = IF k < Len(rows) THEN Abort(db, d.tx) ELSE db
        /\ UNCHANGED <<writers, files>>

\* dir.Readdir(n): the store delivers the whole page.
Readdir(i, n) == ReaddirSome(i, n, n)

(* ------------------------------ fs.go: Tx ----------------------------- *)

\* dir.Stat that asks the store again.
dirStatFresh(i) ==
    LET ri == rootInfo(db, dirs[i].tx)
    IN  /\ last' = Result("DirStat", dirs[i].tx, i, rootUUID, ri.err, 0, <<>>, ri.info)
        /\ UNCHANGED <<db, writers, files, dirs>>

\* dir.Stat: the info FS.Open captured, and nil.
dirStat(i) ==
    /\ last' = Result("DirStat", dirs[i].tx, i, rootUUID, Nil, 0, <<>>, dirs[i].info)
    /\ UNCHANGED <<db, writers, files, dirs>>

\* dir.Read
dirRead(i) ==
    /\ last' = Result("DirRead", dirs[i].tx, i, rootUUID, ErrInvalid, 0, <<>>, NoInfo)
    /\ UNCHANGED <<db, writers, files, dirs>>

\* dir.Seek.  The result carries the arguments, <<offset, whence>>, as data.
dirSeek(i, offset, whence) ==
    /\ last' = Result("DirSeek", dirs[i].tx, i, rootUUID, ErrInvalid, 0,
                      <<offset, whence>>, NoInfo)
    /\ UNCHANGED <<db, writers, files, dirs>>

\* dir.Close accepted twice: the test of d.closed is left out.
dirCloseAgain(i) ==
    /\ dirs' = [dirs EXCEPT ![i].closed = TRUE, ![i].released = TRUE]
    /\ last' = Result("DirClose", dirs[i].tx, i, rootUUID, Nil, 0, <<>>, NoInfo)
    /\ UNCHANGED <<db, writers, files>>

\* dir.Close.  `released` is history: whether a Close has returned nil.
dirClose(i) ==
    /\ IF dirs[i].closed
       THEN /\ last' = Result("DirClose", dirs[i].tx, i, rootUUID, ErrClosed, 0, <<>>, NoInfo)
            /\ UNCHANGED dirs
       ELSE /\ dirs' = [dirs EXCEPT ![i].closed = TRUE, ![i].released = TRUE]
            /\ last' = Result("DirClose", dirs[i].tx, i, rootUUID, Nil, 0, <<>>, NoInfo)
    /\ UNCHANGED <<db, writers, files>>

\* Tx.Commit, called by the owner of the transaction.
Commit(t) ==
    /\ db.tx[t] = "active"
    /\ db' = CommitTx(db, t)
    /\ last' = Result("Commit", t, 0, 0, Nil, 0, <<>>, NoInfo)
    /\ UNCHANGED <<writers, files, dirs>>

(* ---------------------------- migrations.go --------------------------- *)

\* Up: CREATE EXTENSION IF NOT EXISTS lo; CREATE TABLE IF NOT EXISTS pgfs_metadata (...)
Up == "CREATE TABLE IF NOT EXISTS pgfs_metadata"

\* Down: DROP TABLE pgfs_metadata
DownQuery == "DROP TABLE pgfs_metadata"

\* A statement on the schema waits while another transaction in progress has
\* created or dropped the table.
ExecWaits(d, t) ==
    ~Down(d, t) /\ \E v \in d.rel : v.xmin \notin {0, t} \/ v.xmax \notin {0, t}

\* Tx.Exec of one of the two scripts. Up creates the table unless it exists;
\* Down drops it with its rows, and fails when there is no table.
Exec(d, t, query) ==
    IF Down(d, t) THEN [db |-> d, err |-> DownErr(d, t)]
    ELSE IF query = Up
    THEN IF HasTable(d, t) THEN [db |-> d, err |-> Nil]
         ELSE [db |-> [d EXCEPT !.rel = @ \cup {[xmin |-> t, xmax |-> 0]}], err |-> Nil]
    ELSE IF ~HasTable(d, t) THEN Raise(d, t, ErrUndefinedTable)
    ELSE LET Gone(S) == {[x EXCEPT !.xmax = t] : x \in {y \in S : Visible(y, t) /\ y.xmin # t}}
                        \cup {x \in S : ~Visible(x, t)}
         IN  [db |-> [d EXCEPT !.rel = Gone(@), !.meta = Gone(@)], err |-> Nil]

\* MigrateUp: conn.Exec(Up).
MigrateUp(t) ==
    /\ ~ExecWaits(db, t)
    /\ LET r == Exec(db, t, Up)
       IN  /\ db' = r.db
           /\ last' = Result("MigrateUp", t, 0, 0, r.err, 0, <<>>, NoInfo)
    /\ UNCHANGED <<writers, files, dirs>>

\* MigrateDown: conn.Exec(Up).
MigrateDown(t) ==
    /\ ~ExecWaits(db, t)
    /\ LET r == Exec(db, t, Up)
       IN  /\ db' = r.db
           /\ last' = Result("MigrateDown", t, 0, 0, r.err, 0, <<>>, NoInfo)
    /\ UNCHANGED <<writers, files, dirs>>

(* --------------------------- the specification ------------------------ *)

\* The store as an earlier, committed transaction left it: one file, u1, of
\* one byte.  Both transactions have begun.
Init ==
    /\ db = [meta |-> {[id |-> 1, oid |-> 1, createdAt |-> 10, contentSize |-> 1,
                        contentType |-> BinaryType, contentSHA256 |-> sha256(<<97>>),
                        sys |-> Null,
                        xmin |-> 0, xmax |-> 0]},
             lobs |-> (1 :> [data |-> <<97>>, xmin |-> 0, xmax |-> 0]),
             fds |-> [t \in Txs |-> NoFds],
             tx |-> [t \in Txs |-> "active"], nextOid |-> 2, rel |-> {[xmin |-> 0, xmax |-> 0]}]
    /\ writers = <<>>
    /\ files = <<>>
    /\ dirs = <<>>
    /\ last = Result("New", 0, 0, 0, Nil, 0, <<>>, NoInfo)

\* One FS bound to one transaction: the facade and the Write Handles it
\* returns, every call in any order.  Names are spelled in every way for
\* Create; a content type is given for one name; the first Write Handle is
\* written both byte values.
Next ==
    \/ \E name \in {"u1", "u2"} : Stat(1, name)
    \/ ReadFile(1, "u2")
    \/ \E name \in {"bad name", "U1", "u2"} : Create(1, name, "")
    \/ Create(1, "u2", "application/pdf")
    \/ \E name \in {"u1", "u2"} : Remove(1, name)
    \/ \E i \in DOMAIN writers : writerWrite(i, <<97>>)
    \/ writers # <<>> /\ writerWrite(1, <<0>>)
    \/ \E i \in DOMAIN writers : writerClose(i)

\* The same with Read Handles: files are opened and closed while Write Handles
\* are in use.  Content is one byte value and content types are detected.
\* One Read Handle is opened.
NextFile ==
    \/ Stat(1, "u2")
    \/ ReadFile(1, "u2")
    \/ \E name \in {"u1", "u2"} : files = <<>> /\ Open(1, name)
    \/ Create(1, "u2", "")
    \/ \E name \in {"u1", "u2"} : Remove(1, name)
    \/ \E i \in DOMAIN writers : writerWrite(i, <<97>>)
    \/ \E i \in DOMAIN writers : writerClose(i)
    \/ \E i \in DOMAIN files : fileClose(i)

Spec == Init /\ [][Next]_vars

SpecFile == Init /\ [][NextFile]_vars

\* Two FS values bound to two transactions in progress at the same time.
\* Each transaction creates one file, writes it, closes it and commits.
NextTx ==
    \/ \E t \in Txs, name \in {"u1", "u2"} : Stat(t, name)
    \/ \E t \in Txs, name \in {"u1", "u2"} :
          /\ \A i \in DOMAIN writers : writers[i].tx # t
          /\ Create(t, name, "")
    \/ \E i \in DOMAIN writers : writerWrite(i, <<97>>)
    \/ \E i \in DOMAIN writers : writerClose(i)
    \/ \E t \in Txs : Commit(t)

SpecTx == Init /\ [][NextTx]_vars

\* One FS and a handle of the root directory: files are created and removed
\* while the handle is read page by page.  The first Write Handle is written
\* one byte, the others none.
NextDir ==
    \/ Open(1, "")
    \/ \E name \in {"u1", "u2"} : Create(1, name, "")
    \/ \E name \in {"u1", "u2"} : Remove(1, name)
    \/ writers # <<>> /\ writers[1].size = 0 /\ writerWrite(1, <<97>>)
    \/ \E i \in DOMAIN writers : writerClose(i)
    \/ \E i \in DOMAIN dirs, n \in Counts : Readdir(i, n)
    \/ \E i \in DOMAIN dirs : dirRead(i)
    \/ \E i \in DOMAIN dirs : dirSeek(i, 0, SeekStart)
    \/ \E i \in DOMAIN dirs : dirClose(i)

SpecDir == Init /\ [][NextDir]_vars

\* One FS, every facade call with the root's name, a name that is no UUID and
\* the name of a file; a file is created, written and closed and files are
\* removed in between.  One Read Handle is opened; of the Write Handles, the
\* first is written.
NextRoot ==
    \/ \E name \in {"", "bad name", "u1"} : Stat(1, name)
    \/ \E name \in {"", "bad name", "U1"} : (name = "" \/ files = <<>>) /\ Open(1, name)
    \/ \E name \in {"", "u1"} : ReadDir(1, name)
    \/ \E name \in {"", "bad name", "u2"} : Create(1, name, "")
    \/ \E name \in {"bad name", "u1", "u2"} : Remove(1, name)
    \/ writers # <<>> /\ writerWrite(1, <<97>>)
    \/ \E i \in DOMAIN writers : writerClose(i)

SpecRoot == Init /\ [][NextRoot]_vars

\* The contents a file of at most MaxSize bytes has.
Contents == {SubSeq(<<97, 0, 97>>, 1, k) : k \in 0..MaxSize}

\* The store as an earlier, committed transaction left it: one file, u1, of
\* zero to MaxSize bytes.
InitRead ==
    /\ \E c \in Contents :
          db = [meta |-> {[id |-> 1, oid |-> 1, createdAt |-> 10, contentSize |-> Len(c),
                           contentType |-> DetectContentType(c),
                           contentSHA256 |-> sha256(c), sys |-> Null,
                           xmin |-> 0, xmax |-> 0]},
                lobs |-> (1 :> [data |-> c, xmin |-> 0, xmax |-> 0]),
                fds |-> [t \in Txs |-> NoFds],
                tx |-> [t \in Txs |-> "active"], nextOid |-> 2, rel |-> {[xmin |-> 0, xmax |-> 0]}]
    /\ writers = <<>>
    /\ files = <<>>
    /\ dirs = <<>>
    /\ last = Result("New", 0, 0, 0, Nil, 0, <<>>, NoInfo)

\* One FS and the Read Handles of one file: they are read, moved and closed
\* in any order.  A handle is moved forward from the start of the file, and
\* backward or not at all from its position and from the end of the file.
NextRead ==
    \/ Open(1, "u1")
    \/ \E i \in DOMAIN files, lenp \in BufLens : fileRead(i, lenp)
    \/ \E i \in DOMAIN files, offset \in Offsets, whence \in Whences :
          (whence = SeekStart) = (offset > 0) /\ fileSeek(i, offset, whence)
    \/ \E i \in DOMAIN files : fileClose(i)

SpecRead == InitRead /\ [][NextRead]_vars

\* One FS and Write Handles over a store that may accept fewer bytes than it
\* is given: a file is written in chunks that reach past the first 512 bytes,
\* each accepted whole or short of its last byte.
NextWrite ==
    \/ \E contentType \in ContentTypes : writers = <<>> /\ Create(1, "u2", contentType)
    \/ \E i \in DOMAIN writers, b \in BigChunks :
          \E k \in {Len(b) - 1, Len(b)} : writerWriteSome(i, b, k)
    \/ \E i \in DOMAIN writers : writerClose(i)

SpecWrite == Init /\ [][NextWrite]_vars

\* One FS: files are created with attribute maps, written, closed and looked
\* up.
NextSys ==
    \/ \E sys \in SysMaps : CreateSys(1, "u2", "", sys)
    \/ \E i \in DOMAIN writers : writerWrite(i, <<97>>)
    \/ \E i \in DOMAIN writers : writerClose(i)
    \/ \E name \in {"u1", "u2"} : Stat(1, name)
    \/ Remove(1, "u2")

SpecSys == Init /\ [][NextSys]_vars

\* A database on which no script has been executed yet.
InitFresh ==
    /\ db = [meta |-> {}, lobs |-> <<>>, fds |-> [t \in Txs |-> NoFds],
             tx |-> [t \in Txs |-> "active"], nextOid |-> 1, rel |-> {}]
    /\ writers = <<>>
    /\ files = <<>>
    /\ dirs = <<>>
    /\ last = Result("New", 0, 0, 0, Nil, 0, <<>>, NoInfo)

\* Two transactions migrate a fresh database up and down and commit; files
\* are created in it.
NextMigrate ==
    \/ \E t \in Txs : MigrateUp(t)
    \/ \E t \in Txs : MigrateDown(t)
    \/ \E t \in Txs : Commit(t)
    \/ \E t \in Txs : Create(t, "u1", "")
    \/ \E i \in DOMAIN writers : writerWrite(i, <<97>>)
    \/ \E i \in DOMAIN writers : writerClose(i)

SpecMigrate == InitFresh /\ [][NextMigrate]_vars

\* One FS and a Read Handle of u1: the record is removed, by the handle's
\* transaction or by another one that commits, and created again with other
\* content, while the handle is asked for its info.
NextStat ==
    \/ files = <<>> /\ Open(1, "u1")
    \/ \E t \in Txs : Remove(t, "u1")
    \/ Commit(2)
    \/ Create(1, "u1", "")
    \/ \E i \in DOMAIN writers : writerWrite(i, <<0>>)
    \/ \E i \in DOMAIN writers : writerClose(i)
    \/ \E i \in DOMAIN files : fileStat(i)
    \/ \E i \in DOMAIN files : fileClose(i)

SpecStat == Init /\ [][NextStat]_vars

\* One FS whose store may fail while the rows of a listing are delivered: a
\* second file is created, and the records are listed by FS.ReadDir and
\* through handles of the root.
NextList ==
    \/ Create(1, "u2", "")
    \/ \E i \in DOMAIN writers : writerWrite(i, <<97>>)
    \/ \E i \in DOMAIN writers : writerClose(i)
    \/ Open(1, "")
    \/ \E k \in 0..MaxRows : ReadDirSome(1, "", k)
    \/ \E i \in DOMAIN dirs, n \in Counts : \E k \in 0..n : ReaddirSome(i, n, k)
    \/ \E i \in DOMAIN dirs : dirClose(i)

SpecList == Init /\ [][NextList]_vars

\* One Write Handle and a store that gives every kind of answer to lowrite:
\* a full count, a short count, a negative length, an error (after Remove of
\* the name has taken a descriptor of the session with it, or in a
\* transaction that failed).
NextNeg ==
    \/ writers = <<>> /\ Create(1, "u2", "")
    \/ \E i \in DOMAIN writers, b \in {<<97>>, <<97, 0>>} :
          \E k \in {-1, Len(b) - 1, Len(b)} : writerWriteSome(i, b, k)
    \/ \E i \in DOMAIN writers : writerClose(i)
    \/ Remove(1, "u2")

SpecNeg == Init /\ [][NextNeg]_vars

\* One FS whose callers also pass the name the root reports, the all-zero
\* UUID: files are created, written, closed, looked up, listed and removed.
NextZero ==
    \/ \E name \in {root, "u2"} : Create(1, name, "")
    \/ \E i \in DOMAIN writers : writerWrite(i, <<97>>)
    \/ \E i \in DOMAIN writers : writerClose(i)
    \/ \E name \in {root, ""} : Stat(1, name)
    \/ ReadDir(1, "")
    \/ Remove(1, root)

SpecZero == Init /\ [][NextZero]_vars

\* One FS and a handle of the root directory: a file is created and files are
\* removed after it was opened, and the handle is asked for its info and its
\* entries.
NextDirStat ==
    \/ Open(1, "")
    \/ writers = <<>> /\ Create(1, "u2", "")
    \/ \E i \in DOMAIN writers : writerWrite(i, <<97>>)
    \/ \E i \in DOMAIN writers : writerClose(i)
    \/ \E name \in {"u1", "u2"} : Remove(1, name)
    \/ \E i \in DOMAIN dirs : dirStat(i)
    \/ \E i \in DOMAIN dirs, n \in Counts : Readdir(i, n)
    \/ \E i \in DOMAIN dirs : dirClose(i)

SpecDirStat == Init /\ [][NextDirStat]_vars

(* ------------------------------- claims ------------------------------- *)

\* The identifiers uuidParse yields.
Ids == {1, 2}

\* The rows transaction t sees whose large object is w's.
RowsOf(w) == {r \in Rows(db, w.tx, w.id) : r.oid = w.oid}

\* C1: in a transaction in progress, Create of a name whose record exists
\* returns fs.ErrExist and no handle, allocates no large object and opens no
\* descriptor, and leaves every record and every object as it was.
C1_CreateExistingFails ==
    [][\A id \in Ids :
          (/\ last'.op = "Create" /\ last'.id = id
           /\ ~Down(db, last'.tx)
           /\ Rows(db, last'.tx, id) # {})
          => (/\ last'.err = ErrExist
              /\ last'.h = 0
              /\ db' = db
              /\ writers' = writers)]_vars

\* A Create that failed with fs.ErrExist on the record a writer of this run
\* inserted when it was closed.
C1_Witness ==
    /\ last.op = "Create"
    /\ last.err = ErrExist
    /\ \E i \in DOMAIN writers :
          writers[i].finished /\ writers[i].id = last.id /\ RowsOf(writers[i]) # {}

\* C2: a Create that follows a successful Create of the same name, with no
\* call in between, returns fs.ErrExist and allocates no second large object.
C2_SecondCreateFails ==
    [][(/\ last.op = "Create" /\ last.err = Nil
        /\ last'.op = "Create" /\ last'.id = last.id /\ last'.tx = last.tx)
       => (last'.err = ErrExist /\ db'.nextOid = db.nextOid /\ db'.lobs = db.lobs)]_vars

\* C3: two transactions that each create, write and close the same name leave
\* at most one committed record for it, and no Create, Write or Close of
\* either returns the database's unique-violation error.
C3_ConcurrentCreate ==
    /\ \A id \in Ids :
          Cardinality({r \in db.meta : r.id = id /\ r.xmin = 0 /\ r.xmax = 0}) <= 1
    /\ last.op \in {"Create", "Write", "Close"} => last.err # ErrUniqueViolation

\* C4: while a Write Handle returned by Create has not been closed with
\* success, its transaction sees no record for the handle's id: Stat, Open,
\* ReadFile and Remove of the id return fs.ErrNotExist.
C4_NoRecordBeforeClose ==
    \A i \in DOMAIN writers :
        LET w == writers[i]
        IN  (~w.finished /\ ~Down(db, w.tx))
            => /\ Rows(db, w.tx, w.id) = {}
               /\ (last.op \in {"Stat", "Open", "ReadFile", "Remove"}
                   /\ last.id = w.id /\ last.tx = w.tx) => last.err = ErrNotExist

\* C5: for a Write Handle closed with success whose record is still there,
\* ReadFile returns exactly the bytes its Write calls accepted, and Stat
\* reports their number and their digest.
C5_RoundTrip ==
    \A i \in DOMAIN writers :
        LET w == writers[i]
        IN  (w.finished /\ RowsOf(w) # {} /\ ~Down(db, w.tx)
             /\ last.id = w.id /\ last.tx = w.tx)
            => /\ last.op = "ReadFile" => (last.err = Nil /\ last.data = w.given)
               /\ last.op = "Stat" =>
                      /\ last.err = Nil
                      /\ last.info.contentSize = Len(w.given)
                      /\ last.info.contentSHA256 = sha256(w.given)

\* The fields of a record that describe the content.
Described(r) == <<r.id, r.oid, r.contentSize, r.contentType, r.contentSHA256>>

\* C6: every record's size and digest are those of the bytes of its large
\* object, and no step changes a record that stays or the bytes of its object.
C6_RecordMatchesObject ==
    /\ [](\A r \in db.meta :
            /\ r.oid \in DOMAIN db.lobs
            /\ r.contentSize = Len(db.lobs[r.oid].data)
            /\ r.contentSHA256 = sha256(db.lobs[r.oid].data))
    /\ [][\A r \in db.meta : \A q \in db'.meta :
            (q.id = r.id /\ q.oid = r.oid)
            => (Described(q) = Described(r) /\ db'.lobs[r.oid].data = db.lobs[r.oid].data)]_vars

\* http.DetectContentType is given at most the first 512 bytes.
Sniffed(b) == DetectContentType(SubSeq(b, 1, Min(Len(b), 512)))

\* C7: a Close of a Write Handle that returns nil has inserted exactly one
\* record, for the handle's id and object, with the number and the digest of
\* the bytes written and the content type given to Create or else detected,
\* and has closed the handle's descriptor; no id ever has two visible records.
C7_CloseInsertsOneRecord ==
    /\ [](\A id \in Ids : \A t \in Txs : Cardinality(Rows(db, t, id)) <= 1)
    /\ [][\A i \in DOMAIN writers :
            (last'.op = "Close" /\ last'.h = i /\ last'.err = Nil)
            => LET w == writers[i]
               IN  /\ Cardinality(db'.meta \ db.meta) = 1
                   /\ db.meta \subseteq db'.meta
                   /\ \A r \in db'.meta \ db.meta :
                         /\ r.id = w.id
                         /\ r.oid = w.oid
                         /\ r.contentSize = Len(w.given)
                         /\ r.contentSHA256 = sha256(w.given)
                         /\ r.contentType = IF w.contentType # "" THEN w.contentType
                                            ELSE Sniffed(w.given)
                   /\ w.fd \notin DOMAIN db'.fds[w.tx]
                   /\ \A k \in DOMAIN db'.fds[w.tx] : db'.fds[w.tx][k].oid # w.oid
                   /\ db'.lobs = db.lobs]_vars

\* A Close that returned nil on a handle written in two calls, with a binary
\* byte, created without a content type, next to another record.
C7_Witness ==
    /\ last.op = "Close"
    /\ last.err = Nil
    /\ LET w == writers[last.h]
       IN  /\ w.given = <<97, 0>>
           /\ w.contentType = BinaryType
           /\ RowsOf(w) # {}
           /\ Cardinality(db.meta) = 2

\* The errors with which the INSERT of writer.Close fails.
InsertErrors == {ErrUniqueViolation, ErrTxAborted, ErrTxDone}

\* C8: after a Close of a Write Handle whose INSERT failed, the failure has
\* been returned, the handle is closed and its descriptor is not open.
C8_FailedCloseCloses ==
    \A i \in DOMAIN writers :
        (last.op = "Close" /\ last.h = i /\ last.err \in InsertErrors)
        => (writers[i].closed /\ writers[i].fd \notin DOMAIN db.fds[writers[i].tx])

\* C9: once Close of a Write Handle has returned nil, every Write returns
\* fs.ErrClosed with a count of 0 and every Close returns fs.ErrClosed, and
\* neither changes the database or the handle.
C9_ClosedWriterRefuses ==
    [][\A i \in DOMAIN writers :
          (writers[i].finished /\ last'.op \in {"Write", "Close"} /\ last'.h = i)
          => (/\ last'.err = ErrClosed
              /\ last'.n = 0
              /\ db' = db
              /\ writers' = writers)]_vars

\* A Write refused on a handle whose record is in the store.
C9_Witness ==
    /\ last.op = "Write"
    /\ last.err = ErrClosed
    /\ writers[last.h].finished
    /\ writers[last.h].given # <<>>
    /\ RowsOf(writers[last.h]) # {}

\* C10: once Close of a Read Handle has returned nil, every Close returns
\* fs.ErrClosed and sends nothing to the database.
C10_ClosedFileRefuses ==
    [][\A i \in DOMAIN files :
          (files[i].released /\ last'.op = "FileClose" /\ last'.h = i)
          => (last'.err = ErrClosed /\ db' = db)]_vars

\* C11: a Remove that returns nil has deleted the record of the id and
\* unlinked its large object, and has left every other record and every other
\* object as it was; the next Stat, Open or Remove of the id returns
\* fs.ErrNotExist and the next ReadDir does not list the id.
C11_RemoveDeletesBoth ==
    [][/\ (last'.op = "Remove" /\ last'.err = Nil)
          => LET t == last'.tx
                 gone == Rows(db, t, last'.id)
             IN  /\ gone # {}
                 /\ Rows(db', t, last'.id) = {}
                 /\ \A r \in gone : ~LoVisible(db', t, r.oid)
                 /\ VisibleRows(db', t) = VisibleRows(db, t) \ gone
                 /\ \A o \in DOMAIN db.lobs :
                       (\A r \in gone : r.oid # o)
                       => (o \in DOMAIN db'.lobs /\ db'.lobs[o] = db.lobs[o])
       /\ (last.op = "Remove" /\ last.err = Nil /\ last'.tx = last.tx)
          => /\ (last'.op \in {"Stat", "Open", "Remove"} /\ last'.id = last.id)
                => last'.err = ErrNotExist
             /\ last'.op = "ReadDir"
                => (last'.err = Nil
                    /\ \A k \in DOMAIN last'.entries : last'.entries[k].id # last.id)]_vars

\* A Remove that returned nil on a file written and closed in this run, with
\* another file left in the store.
C11_Witness ==
    /\ last.op = "Remove"
    /\ last.err = Nil
    /\ \E i \in DOMAIN writers :
          writers[i].finished /\ writers[i].id = last.id /\ writers[i].given # <<>>
    /\ VisibleRows(db, last.tx) # {}

\* C12: in a transaction in progress, Stat, Open and Remove of a valid id
\* that has no record return fs.ErrNotExist and no handle, and leave the
\* database, descriptors included, as it was.
C12_MissingIsNotExist ==
    [][(/\ last'.op \in {"Stat", "Open", "Remove"}
        /\ uuidParse(last'.name).ok
        /\ ~Down(db, last'.tx)
        /\ Rows(db, last'.tx, uuidParse(last'.name).id) = {})
       => (/\ last'.err = ErrNotExist
           /\ last'.h = 0
           /\ db' = db
           /\ files' = files)]_vars

\* An Open that returned fs.ErrNotExist for the other spelling of a file that
\* was removed, while another file is in the store.
C12_Witness ==
    /\ last.op = "Open"
    /\ last.name = "U1"
    /\ last.err = ErrNotExist
    /\ VisibleRows(db, last.tx) # {}

\* C13: Stat, Open and Remove of a non-empty name that is no UUID return
\* fs.ErrNotExist and no handle and send nothing to the database: the answer
\* is the same when the transaction can no longer execute a statement, and
\* the database is as it was.
C13_BadNameIsNotExist ==
    [][(/\ last'.op \in {"Stat", "Open", "Remove"}
        /\ last'.name # ""
        /\ ~uuidParse(last'.name).ok)
       => (/\ last'.err = ErrNotExist
           /\ last'.h = 0
           /\ db' = db
           /\ files' = files
           /\ dirs' = dirs)]_vars

\* A Stat of a bad name answered fs.ErrNotExist in an aborted transaction,
\* where every statement fails.
C13_Witness ==
    /\ last.op = "Stat"
    /\ last.name = "bad name"
    /\ last.err = ErrNotExist
    /\ Down(db, last.tx)

\* C14: Create of the empty name or of a name that is no UUID returns a
\* *fs.PathError, which is not fs.ErrNotExist, and no handle; it sends nothing
\* to the database (the answer is the same in a transaction that can execute
\* no statement) and allocates no large object.
C14_CreateBadName ==
    [][(last'.op = "Create" /\ last'.name \in {"", "bad name"})
       => (/\ last'.err = PathError
           /\ last'.err # ErrNotExist
           /\ last'.h = 0
           /\ db' = db
           /\ writers' = writers)]_vars

\* A Create of the empty name refused in an aborted transaction.
C14_Witness ==
    /\ last.op = "Create"
    /\ last.name = ""
    /\ last.err = PathError
    /\ Down(db, last.tx)

\* C15: in a transaction in progress, Readdir(n) with n > 0 returns io.EOF
\* exactly when it returns fewer than n entries, and no other error; on a
\* handle that has returned io.EOF it returns no entry and io.EOF whenever the
\* store holds no more records than the handle has returned so far; and with
\* no record in the store it returns no entry and io.EOF wherever the cursor is.
C15_ReaddirEOF ==
    [][\A i \in DOMAIN dirs :
          (last'.op = "Readdir" /\ last'.h = i /\ last'.n > 0 /\ ~Down(db, dirs[i].tx))
          => LET k == Len(last'.entries)
                 rows == VisibleRows(db, dirs[i].tx)
             IN  /\ last'.err \in {Nil, EOF}
                 /\ (last'.err = EOF) <=> (k < last'.n)
                 /\ (dirs[i].exhausted /\ Cardinality(rows) <= dirs[i].cur)
                    => (k = 0 /\ last'.err = EOF)
                 /\ rows = {} => (k = 0 /\ last'.err = EOF)]_vars

\* C15 as stated: on a handle that has returned io.EOF every later Readdir
\* returns no entry and io.EOF, whatever was added to the store since.
C15_ExhaustedStaysEmpty ==
    [][\A i \in DOMAIN dirs :
          (/\ last'.op = "Readdir" /\ last'.h = i /\ last'.n > 0
           /\ ~Down(db, dirs[i].tx) /\ dirs[i].exhausted)
          => (Len(last'.entries) = 0 /\ last'.err = EOF)]_vars

\* A Readdir that found the store emptied after the handle had returned two
\* entries.
C15_Witness ==
    /\ last.op = "Readdir"
    /\ last.err = EOF
    /\ last.entries = <<>>
    /\ dirs[last.h].cur = 2
    /\ VisibleRows(db, last.tx) = {}

\* C16: in a transaction in progress ReadDir("") returns nil and one entry
\* for every record, each once, in ascending order of the ids, every entry a
\* regular file (the root is not among them), and none for the large object
\* of a Write Handle that has not been closed.
C16_ReadDirListsAll ==
    (last.op = "ReadDir" /\ last.name = "" /\ ~Down(db, last.tx))
    => LET es == last.entries
           rows == VisibleRows(db, last.tx)
       IN  /\ last.err = Nil
           /\ {es[k] : k \in DOMAIN es} = {Info(r) : r \in rows}
           /\ Len(es) = Cardinality(rows)
           /\ \A j, k \in DOMAIN es : j < k => es[j].id < es[k].id
           /\ \A k \in DOMAIN es : es[k].mode # ModeDir
           /\ \A i \in DOMAIN writers : \A k \in DOMAIN es :
                 ~writers[i].finished => es[k].oid # writers[i].oid

\* A ReadDir("") that listed two files while a Write Handle was open.
C16_Witness ==
    /\ last.op = "ReadDir"
    /\ last.name = ""
    /\ Len(last.entries) = 2
    /\ \E i \in DOMAIN writers : ~writers[i].finished

\* C17: the ids a directory handle returns are strictly ascending across its
\* Readdir calls: every entry of a call has an id greater than every id the
\* handle returned before, and the entries of one call ascend.
C17_ReaddirAscends ==
    [][\A i \in DOMAIN dirs :
          (last'.op = "Readdir" /\ last'.h = i)
          => LET es == last'.entries
             IN  /\ \A k \in DOMAIN es : es[k].id > dirs[i].top
                 /\ \A j, k \in DOMAIN es : j < k => es[j].id < es[k].id]_vars

\* C18: ReadDir of a name other than the empty one returns an error.
C18_ReadDirNamedFails ==
    (last.op = "ReadDir" /\ last.name # "") => last.err # Nil

\* The content_size of the record of id that transaction t sees, 0 if none.
SizeOf(t, id) ==
    IF Rows(db, t, id) = {} THEN 0 ELSE (CHOOSE r \in Rows(db, t, id) : TRUE).contentSize

\* C19: in a transaction in progress Stat("") and Open("") return nil whatever
\* the store holds; the info they return is a directory's and its size is the
\* sum of content_size over the records (0 with none); the info Stat returns
\* for a record is a regular file's.
C19_RootInfo ==
    /\ (last.op \in {"Stat", "Open"} /\ last.name = "" /\ ~Down(db, last.tx))
       => /\ last.err = Nil
          /\ last.info.mode = ModeDir
          /\ last.info.contentSize = SizeOf(last.tx, 1) + SizeOf(last.tx, 2)
    /\ (last.op = "Stat" /\ last.name # "" /\ last.err = Nil)
       => last.info.mode = ModeFile

\* A Stat("") over two records, of one and of two bytes.
C19_Witness ==
    /\ last.op = "Stat"
    /\ last.name = ""
    /\ last.err = Nil
    /\ last.info.contentSize = 3
    /\ Cardinality(VisibleRows(db, last.tx)) = 2

\* C20: the time Stat("") reports is the greatest created_at of the records,
\* or the current time when there is none; it is never the zero time.
C20_RootModTime ==
    (last.op = "Stat" /\ last.name = "" /\ ~Down(db, last.tx))
    => LET rows == VisibleRows(db, last.tx)
       IN  /\ last.err = Nil
           /\ last.info.createdAt # zeroTime
           /\ rows # {} => /\ \A x \in rows : last.info.createdAt >= x.createdAt
                            /\ \E y \in rows : last.info.createdAt = y.createdAt
           /\ rows = {} => last.info.createdAt = now(last.tx)

\* Whether the Read Handle f is in use: no Close of it has returned nil, its
\* transaction is in progress and the record it was opened on is still there.
InUse(f) ==
    /\ ~f.released
    /\ db.tx[f.tx] = "active"
    /\ \E r \in Rows(db, f.tx, f.info.id) : r.oid = f.info.oid

\* Where Seek(offset, whence) leads on a handle at position p of an object of
\* size bytes.
Target(p, size, offset, whence) ==
    CASE whence = SeekStart -> offset
      [] whence = SeekCurrent -> p + offset
      [] whence = SeekEnd -> size + offset

\* C21: Seek on a Read Handle in use returns the new absolute position: the
\* offset from the start, the position plus the offset from the current
\* position (0 on a fresh handle), the object's size plus the offset from the
\* end.  It fails when that position is negative, and the handle's position
\* changes only when it succeeds.
C21_SeekPosition ==
    [][\A i \in DOMAIN files :
          (last'.op = "Seek" /\ last'.h = i /\ InUse(files[i])) =>
              LET f == files[i]
                  target == Target(f.at, f.info.contentSize, last'.data[1], last'.data[2])
              IN  IF target >= 0
                  THEN last'.err = Nil /\ last'.n = target /\ files'[i].pos = target
                  ELSE last'.err # Nil /\ files'[i].pos = f.pos]_vars

\* What a caller gets on the Read Handle i from Seek(0, io.SeekEnd), then
\* Seek(-h, io.SeekCurrent), then io.ReadAll.
SeekBackRead(i, h) ==
    LET f == files[i]
        s1 == seek(db, f.tx, f.fd, 0, SeekEnd)
        s2 == seek(s1.db, f.tx, f.fd, 0 - h, SeekCurrent)
        a == ReadAll(s2.db, f.tx, f.fd, <<>>)
    IN  [end |-> s1, back |-> s2, all |-> a]

C23_SniffBuffer ==
    \A i \in DOMAIN writers :
        LET w == writers[i]
        IN  /\ Len(w.tag) <= fileTagSize
            /\ w.asked = "" =>
                   w.tag = SubSeq(w.stored, 1, Min(fileTagSize, Len(w.stored)))
            /\ w.asked # "" => w.tag = <<>>

\* C23 happens: the store has accepted more than 512 bytes through a handle
\* created without a content type, the last Write short of its argument.
C23_Witness ==
    \E i \in DOMAIN writers :
        /\ writers[i].asked = ""
        /\ Len(writers[i].stored) > fileTagSize
        /\ Len(writers[i].tag) = fileTagSize
        /\ last.op = "Write" /\ last.h = i /\ last.err = ErrShortWrite

\* C24: the record a successful Close inserts carries the content type given
\* to Create when one was given, and otherwise the type detected from the
\* first 512 bytes the store accepted; it is never empty.
C24_ContentType ==
    [][\A i \in DOMAIN writers :
          (last'.op = "Close" /\ last'.h = i /\ last'.err = Nil) =>
              LET w == writers[i]
                  sniffed == SubSeq(w.stored, 1, Min(fileTagSize, Len(w.stored)))
              IN  \E r \in db'.meta :
                      /\ r.id = w.id /\ r.oid = w.oid
                      /\ r.contentType # ""
                      /\ r.contentType = IF w.asked # "" THEN w.asked
                                         ELSE DetectContentType(sniffed)]_vars

\* C24 happens: a file of more than 512 bytes of text and a zero byte after
\* them, created without a content type, was closed and is recorded as text.
C24_Witness ==
    /\ last.op = "Close" /\ last.err = Nil
    /\ LET w == writers[last.h]
       IN  /\ w.asked = ""
           /\ Len(w.stored) > fileTagSize
           /\ w.stored[Len(w.stored)] = 0
           /\ \E r \in db.meta : r.oid = w.oid /\ r.contentType = TextType

\* C25: when the store accepts k bytes of a Write of more than k bytes, Write
\* returns k with ShortWrite; the store was written once, with the first k
\* bytes at the handle's position and nothing after them; and the handle's
\* byte count and digest advance by those k bytes only.
C25_ShortWrite ==
    [][\A i \in DOMAIN writers :
          LET w == writers[i]
              b == last'.data
          IN  (/\ last'.op = "Write" /\ last'.h = i /\ ~w.closed
               /\ db.tx[w.tx] = "active" /\ db'.tx[w.tx] = "active"
               /\ w.fd \in DOMAIN db.fds[w.tx]
               /\ db'.fds[w.tx][w.fd].pos - db.fds[w.tx][w.fd].pos < Len(b)) =>
                  LET c == db.fds[w.tx][w.fd]
                      k == db'.fds[w.tx][w.fd].pos - c.pos
                      accepted == SubSeq(b, 1, k)
                  IN  /\ last'.err = ErrShortWrite
                      /\ last'.n = k
                      /\ db' = [db EXCEPT !.lobs[c.oid].data = Overwrite(@, c.pos, accepted),
                                          !.fds[w.tx][w.fd].pos = c.pos + k]
                      /\ writers'[i].size = w.size + k
                      /\ writers'[i].hasher = shaWrite(w.hasher, accepted)
                      /\ writers'[i].stored = w.stored \o accepted]_vars

\* C25 happens: a Write of 300 bytes of which the store accepted 299 returned
\* ShortWrite, after an earlier Write through the same handle.
C25_Witness ==
    /\ last.op = "Write" /\ last.err = ErrShortWrite
    /\ Len(last.data) = 300 /\ last.n = 299
    /\ writers[last.h].size > 299
    /\ Len(db.lobs[writers[last.h].oid].data) = writers[last.h].size

\* C26: Read and Seek on a Read Handle whose Close has returned nil fail with
\* ClosedHandle.
C26_ClosedFileRefusesReadSeek ==
    [][\A i \in DOMAIN files :
          (files[i].released /\ last'.op \in {"Read", "Seek"} /\ last'.h = i) =>
              last'.err = ErrClosed]_vars

\* C27: on a handle of the root directory, Read and Seek fail with the
\* invalid-operation error and change neither the handle nor the store; the
\* first Close returns nil and every later Close fails with ClosedHandle,
\* none of them touching the cursor or the store.
C27_DirHandle ==
    [][\A i \in DOMAIN dirs :
          /\ (last'.op \in {"DirRead", "DirSeek"} /\ last'.h = i) =>
                 /\ last'.err = ErrInvalid /\ last'.n = 0
                 /\ dirs' = dirs /\ db' = db
          /\ (last'.op = "DirClose" /\ last'.h = i) =>
                 /\ last'.err = IF dirs[i].released THEN ErrClosed ELSE Nil
                 /\ dirs'[i].cur = dirs[i].cur /\ db' = db]_vars

\* C27 happens: a handle of the root that was read from and closed is closed
\* again and refuses, in a transaction that has failed since.
C27_Witness ==
    /\ last.op = "DirClose" /\ last.err = ErrClosed
    /\ dirs[last.h].cur > 0
    /\ db.tx[dirs[last.h].tx] = "aborted"

\* C28: a Close of one Read Handle, whatever it returns, leaves every other
\* Read Handle in use as it was: its descriptor stays open, at the same
\* position of the same object.
C28_HandlesIndependent ==
    [][\A i, j \in DOMAIN files :
          (/\ i # j
           /\ last'.op = "FileClose" /\ last'.h = i
           /\ InUse(files[j])
           /\ files[j].fd \in DOMAIN db.fds[files[j].tx]) =>
              /\ files[j].fd \in DOMAIN db'.fds[files[j].tx]
              /\ db'.fds[files[j].tx][files[j].fd] = db.fds[files[j].tx][files[j].fd]]_vars

\* C29: the attributes Stat returns for a file are the map that was given to
\* Create on the handle whose Close stored it: the same keys with the same
\* values, and no attribute at all for a nil map.
C29_SysRoundTrip ==
    (last.op = "Stat" /\ last.err = Nil /\ last.name # "") =>
        \A i \in DOMAIN writers :
            (writers[i].finished /\ writers[i].oid = last.info.oid) =>
                IF writers[i].sys.nil THEN DOMAIN last.info.sys.m = {}
                ELSE last.info.sys = writers[i].sys

\* C29 happens: Stat returned a file created with two attributes, and both
\* are there.
C29_Witness ==
    /\ last.op = "Stat" /\ last.err = Nil /\ last.name = "u2"
    /\ \E i \in DOMAIN writers : writers[i].finished /\ writers[i].oid = last.info.oid
    /\ last.info.sys = MakeSys(("a" :> "1") @@ ("b" :> "2"))

\* C30: in every state, and as every transaction sees the store, each record
\* references a large object that exists, and no two records reference the
\* same large object.
C30_RecordsReferenceObjects ==
    \A t \in Txs :
        \A r \in VisibleRows(db, t) :
            /\ LoVisible(db, t, r.oid)
            /\ \A x \in VisibleRows(db, t) : x.oid = r.oid => x = r

\* C30 happens: the file the store began with was removed and two files were
\* created, written and closed since, each record with an object of its own.
C30_Witness ==
    /\ Cardinality(VisibleRows(db, 1)) = 2
    /\ \A r \in VisibleRows(db, 1) : r.oid # 1 /\ r.contentSize > 0
    /\ ~LoVisible(db, 1, 1)

\* C31: when the metadata table exists (MigrateUp has been executed) and
\* MigrateDown returns without an error, the table no longer exists for the
\* transaction that ran it (violated: MigrateDown executes Up, which leaves
\* the table in place).
C31_MigrateDownDropsTable ==
    [][last'.op = "MigrateDown" /\ last'.err = Nil /\ HasTable(db, last'.tx)
          => ~HasTable(db', last'.tx)]_vars

\* C32: Stat on a Read Handle asks the store again at every call: after the
\* record has been removed it returns fs.ErrNotExist although the handle is
\* still open, and while a record of the name exists it returns that record's
\* info, not the one captured by Open.
C32_FileStatAsksAgain ==
    last.op = "FileStat" =>
        LET rows == Rows(db, last.tx, files[last.h].info.id)
        IN  IF Down(db, last.tx) THEN last.err = DownErr(db, last.tx)
            ELSE IF rows = {} THEN last.err = ErrNotExist /\ last.info = NoInfo
            ELSE last.err = Nil /\ \E r \in rows : last.info = Info(r)

\* Stat on a handle that was never closed answers fs.ErrNotExist: the record
\* it was opened on has been removed.
C32_Witness ==
    /\ last.op = "FileStat"
    /\ last.err = ErrNotExist
    /\ ~files[last.h].released
    /\ ~files[last.h].closed

\* Read called on the descriptor fd with buffers of lenp bytes until it
\* returns an error: the error, the bytes delivered and the number of calls.
RECURSIVE ReadLoop(_, _, _, _, _, _)
ReadLoop(d, t, fd, lenp, acc, calls) ==
    LET r == read(d, t, fd, lenp)
    IN  IF r.err # Nil
        THEN [err |-> r.err, data |-> acc \o r.data, calls |-> calls + 1]
        ELSE ReadLoop(r.db, t, fd, lenp, acc \o r.data, calls + 1)

\* C33: on a Read Handle whose descriptor is open, Read with a buffer of
\* lenp >= 1 bytes returns the bytes the store holds from the position on, at
\* most lenp of them, with their number as count, and signals io.EOF exactly
\* when they are fewer than lenp; calling it again and again ends with io.EOF
\* after delivering the bytes from the starting position to the end of the
\* object, in order.
C33_ReadUntilEOF ==
    \A i \in DOMAIN files :
        LET f == files[i]
        IN  (~Down(db, f.tx) /\ f.fd \in DOMAIN db.fds[f.tx]) =>
                LET c == db.fds[f.tx][f.fd]
                    all == db.lobs[c.oid].data
                IN  \A lenp \in BufLens :
                        LET r == read(db, f.tx, f.fd, lenp)
                            want == SubSeq(all, c.pos + 1, Min(c.pos + lenp, Len(all)))
                            e == ReadLoop(db, f.tx, f.fd, lenp, <<>>, 0)
                        IN  /\ r.err \in {Nil, EOF}
                            /\ r.data = want /\ r.n = Len(want)
                            /\ r.err = EOF <=> Len(want) < lenp
                            /\ e.err = EOF
                            /\ e.data = SubSeq(all, c.pos + 1, Len(all))
                            /\ Len(e.data) = Max(Len(all) - c.pos, 0)

\* C33 happens: Read calls through a handle opened on an object of three
\* bytes have delivered the three bytes, and the last one returned io.EOF.
C33_Witness ==
    /\ last.op = "Read" /\ last.err = EOF
    /\ files[last.h].at = 3
    /\ files[last.h].info.contentSize = 3
    /\ \E lenp \in BufLens :
          ReadLoop(db, last.tx, files[last.h].fd, lenp, <<>>, 0) = [err |-> EOF, data |-> <<>>, calls |-> 1]

\* C34: when the store fails while the rows of a listing are delivered to
\* FS.ReadDir or to Readdir of a directory handle (the failure aborts the
\* transaction), the call returns a failure: neither nil nor io.EOF
\* (violated: rows.Err is never looked at).
C34_ListingFailureReturned ==
    [][\A t \in Txs :
          (/\ last'.op \in {"ReadDir", "Readdir"} /\ last'.tx = t
           /\ db.tx[t] = "active" /\ db'.tx[t] = "aborted")
          => last'.err \notin {Nil, EOF}]_vars

\* C35: when Readdir on a directory handle returns io.EOF, every record that
\* was there when the handle was opened and is still there (same name, same
\* object) has been returned by a Readdir of the handle (violated: the cursor
\* is an OFFSET, so removing a record already returned makes the next page
\* skip one).
C35_LastingRecordEnumerated ==
    (last.op = "Readdir" /\ last.err = EOF) =>
        LET d == dirs[last.h]
        IN  \A p \in d.had \cap Keys(VisibleRows(db, d.tx)) : p \in d.seen

C37_WriteTakesEveryAnswer ==
    [][/\ last'.op = "Write" => last'.err # Panic
       /\ \A i \in DOMAIN writers :
             /\ writers'[i].size >= writers[i].size
             /\ writers'[i].size = Len(writers'[i].stored)]_vars

\* C38: Create with the name the root reports, the all-zero UUID, is
\* rejected; no transaction sees a record with that id, and no listing has an
\* entry of that name (violated: Create takes the all-zero UUID as any other).
C38_RootNameReserved ==
    /\ (last.op = "Create" /\ last.name = root) => last.err # Nil
    /\ \A t \in Txs : Rows(db, t, rootUUID) = {}
    /\ \A k \in DOMAIN last.entries : uuidString(last.entries[k].id) # uuidString(rootUUID)

\* C39: the info of a root directory handle is the aggregate FS.Open read
\* when it opened the handle; no call changes it, and Stat on the handle
\* returns it with nil, whatever was created or removed since; Readdir on the
\* handle returns the rows there are at the time of the call.
C39_DirStatCaptured ==
    [][/\ \A i \in DOMAIN dirs : dirs'[i].info = dirs[i].info
       /\ (last'.op = "Open" /\ last'.name = "" /\ last'.err = Nil /\ Len(dirs') > Len(dirs))
             => dirs'[last'.h].info = rootInfo(db, last'.tx).info
       /\ last'.op = "DirStat" => last'.err = Nil /\ last'.info = dirs[last'.h].info
       /\ (last'.op = "Readdir" /\ last'.err \in {Nil, EOF})
             => last'.entries = Entries(page(db, last'.tx, dirs[last'.h].cur, last'.n))]_vars

\* C39 happens: Stat on a root directory handle returns a size other than
\* the sum of the sizes of the records there are now, and the handle's last
\* Readdir returned a record created after the handle was opened.
C39_Witness ==
    /\ last.op = "DirStat" /\ last.err = Nil
    /\ ~Down(db, last.tx)
    /\ last.info.contentSize # rootInfo(db, last.tx).info.contentSize
    /\ last.info.createdAt # rootInfo(db, last.tx).info.createdAt
    /\ dirs[last.h].seen \ dirs[last.h].had # {}

====
